---- MODULE Spec2Model ----
(***************************************************************************)
(* gooseberry-tm: the keystroke-driven engine of src/src/app.rs            *)
(* (GooseberryTabs, GooseberryTab), the text input boxes of                *)
(* src/src/utility/interactive.rs, the entries of src/src/entry.rs and the *)
(* event loop of src/src/main.rs.                                          *)
(*                                                                         *)
(* Text is a sequence of one-character strings.  Option<T> is a sequence   *)
(* of length 0 (None) or 1 (Some).  Vec and usize indexes are 0-based in   *)
(* the source and sequences 1-based here, hence the "+ 1" at every access. *)
(***************************************************************************)
EXTENDS Integers, Sequences, FiniteSets, TLC

VARIABLES
    tabs,     \* GooseberryTabs.tabs : index -> GooseberryTab
    index,    \* GooseberryTabs.index
    outcome,  \* the last GooseberryTabs::keypress: whether it was given Left, Right or
              \* another key, what it returned and the code path that served it
    running,  \* the event loop: "waiting", "quit" or "error"
    deleted,  \* history: per tab, the ids that have left the catalog in this session
    file,     \* an entry file: the entry written to it, its content and what was read
              \* back from it
    form,     \* a form on its own: its boxes, what InputBoxes::keypress returned last,
              \* and the run of next-box commands it is in (history)
    events    \* Events: the channel rx, and (history) the keys the keyboard thread
              \* sent, the keys the loop handled and the number of ticks sent

vars == <<tabs, index, outcome, running, deleted, file, form, events>>

----------------------------------------------------------------------------
(* Bounds of the model *)

\* box text can be typed while the form holds fewer than MaxLen characters
MaxLen == 1
\* a new entry is saved only while next_id <= MaxNextId and visible_ids holds at
\* most MaxNextId ids
MaxNextId == 2
\* stands for u64::MAX: parsing a typed id above it fails
IdLimit == 11
\* digits the user types while picking an id
Digits == {"1", "2"}
\* digits typed where only the picker is exercised
PickerDigits == {"0", "1", "2"}
\* characters typed as text in writing mode
TypedChars == {"a"}
\* Utc::now() at the time an entry is made from the input boxes
Times == {1}

----------------------------------------------------------------------------
(* Option, text *)

None == <<>>
Some(x) == <<x>>
IsSome(o) == Len(o) = 1

Whitespace == {" ", "\n", "\t"}

RECURSIVE TrimStart(_)
TrimStart(s) ==
    IF s # <<>> /\ Head(s) \in Whitespace THEN TrimStart(Tail(s)) ELSE s

RECURSIVE TrimEnd(_)
TrimEnd(s) ==
    IF s # <<>> /\ s[Len(s)] \in Whitespace
    THEN TrimEnd(SubSeq(s, 1, Len(s) - 1))
    ELSE s

\* str::trim
Trim(s) == TrimEnd(TrimStart(s))

\* str::split(sep) for a one-character separator: "" splits into [""]
RECURSIVE Split(_, _)
Split(s, sep) ==
    IF \A i \in 1..Len(s) : s[i] # sep
    THEN <<s>>
    ELSE LET k == CHOOSE i \in 1..Len(s) : s[i] = sep /\ \A j \in 1..(i - 1) : s[j] # sep
         IN <<SubSeq(s, 1, k - 1)>> \o Split(SubSeq(s, k + 1, Len(s)), sep)

\* [String]::join(", ")
RECURSIVE Join(_)
Join(parts) ==
    IF parts = <<>> THEN <<>>
    ELSE IF Len(parts) = 1 THEN parts[1]
    ELSE parts[1] \o <<",", " ">> \o Join(Tail(parts))

\* content.split(',').map(|t| t.trim().to_owned()).collect()
SplitTrim(content) ==
    LET parts == Split(content, ",")
    IN [i \in 1..Len(parts) |-> Trim(parts[i])]

\* decimal digits of a typed id
DigitValue(c) ==
    CASE c = "0" -> 0 [] c = "1" -> 1 [] c = "2" -> 2 [] c = "3" -> 3 [] c = "4" -> 4
      [] c = "5" -> 5 [] c = "6" -> 6 [] c = "7" -> 7 [] c = "8" -> 8 [] c = "9" -> 9

AllDigits == {"0", "1", "2", "3", "4", "5", "6", "7", "8", "9"}

----------------------------------------------------------------------------
(* Key events (crossterm::KeyEvent) *)

Key(kind, c) == [kind |-> kind, c |-> c]
Char(c) == Key("Char", c)
Ctrl(c) == Key("Ctrl", c)
Backspace == Key("Backspace", "")
Up == Key("Up", "")
Down == Key("Down", "")
Left == Key("Left", "")
Right == Key("Right", "")
Esc == Key("Esc", "")
NoKey == Key("None", "")

\* the keys GooseberryTabs::keypress matches itself, apart from 'q'
KeyClass(key) == IF key \in {Left, Right} THEN key.kind ELSE "Other"

----------------------------------------------------------------------------
(* Results (Result<_, anyhow::Error>) *)

Ok(v) == [ok |-> TRUE, val |-> v]
Err(e) == [ok |-> FALSE, err |-> e]
\* Sorry::MissingEntryID { entry_type, entry_id }
MissingEntryID(entry_type, entry_id) ==
    Err([kind |-> "MissingEntryID", entry_type |-> entry_type, entry_id |-> entry_id])
\* std::io::Error out of path_abs (create, write_str, remove)
IoError == Err([kind |-> "Io"])
\* std::num::ParseIntError out of str::parse::<u64>
ParseIntError == Err([kind |-> "ParseInt"])

----------------------------------------------------------------------------
(* Input boxes (utility/interactive.rs) *)

\* InputBox::new; percent only sizes the rendering and is left out
InputBox_new(title, markdown) ==
    [title |-> title, is_writing |-> FALSE, content |-> <<>>,
     markdown |-> markdown, scroll |-> 0]

\* InputBoxes::start_writing
start_writing(ib) ==
    [boxes |-> [i \in 1..Len(ib.boxes) |-> [ib.boxes[i] EXCEPT !.is_writing = (i = 1)]],
     index |-> 0]

\* InputBoxes::stop_writing
stop_writing(ib) ==
    [boxes |-> [i \in 1..Len(ib.boxes) |-> [ib.boxes[i] EXCEPT !.is_writing = FALSE]],
     index |-> 0]

\* InputBoxes::new
InputBoxes_new(boxes) == start_writing([boxes |-> boxes, index |-> 0])

\* InputBoxes::replace_content
replace_content(ib, i, content) == [ib EXCEPT !.boxes[i + 1].content = content]

\* a save that takes its snapshot after the boxes are cleared
save_after_clear(ib) ==
    LET cleared == [ib EXCEPT !.boxes =
                       [i \in 1..Len(ib.boxes) |-> [ib.boxes[i] EXCEPT !.content = <<>>]]]
    IN [boxes |-> cleared.boxes, ib |-> stop_writing(cleared)]

\* InputBoxes::save: the boxes as they are, and the form cleared and stopped
save(ib) ==
    [boxes |-> ib.boxes,
     ib |-> stop_writing([ib EXCEPT !.boxes =
                [i \in 1..Len(ib.boxes) |-> [ib.boxes[i] EXCEPT !.content = <<>>]]])]

\* a next box that stops at the last box
increment_box_no_wrap(ib) ==
    IF ib.index + 1 = Len(ib.boxes) THEN ib
    ELSE LET off == [ib EXCEPT !.boxes[ib.index + 1].is_writing = FALSE]
         IN [off EXCEPT !.index = ib.index + 1, !.boxes[ib.index + 2].is_writing = TRUE]

\* InputBoxes::increment_box
increment_box(ib) ==
    LET next == (ib.index + 1) % Len(ib.boxes)
        off == [ib EXCEPT !.boxes[ib.index + 1].is_writing = FALSE]
    IN [off EXCEPT !.index = next, !.boxes[next + 1].is_writing = TRUE]

\* InputBoxes::decrement_box
decrement_box(ib) ==
    LET prev == IF ib.index > 0 THEN ib.index - 1 ELSE Len(ib.boxes) - 1
        off == [ib EXCEPT !.boxes[ib.index + 1].is_writing = FALSE]
    IN [off EXCEPT !.index = prev, !.boxes[prev + 1].is_writing = TRUE]

\* the box of a form that has the focus
Focused(ib) == ib.boxes[ib.index + 1]

\* String::pop
Pop(s) == IF s = <<>> THEN s ELSE SubSeq(s, 1, Len(s) - 1)

\* a form that takes Enter as text in every box
InputBoxes_keypress_newline_is_text(ib, key) ==
    IF key.kind = "Char"
    THEN [ib |-> [ib EXCEPT !.boxes[ib.index + 1].content =
                      Append(ib.boxes[ib.index + 1].content, key.c)],
          new_entry |-> None, stop_writing |-> FALSE]
    ELSE IF key.kind = "Ctrl" /\ key.c = "n"
    THEN [ib |-> increment_box(ib), new_entry |-> None, stop_writing |-> FALSE]
    ELSE [ib |-> ib, new_entry |-> None, stop_writing |-> FALSE]

\* a form that returns its snapshot and goes on writing
InputBoxes_keypress_goes_on(ib, key) ==
    CASE key.kind = "Ctrl" /\ key.c = "s" ->
           [ib |-> save(ib).ib, new_entry |-> Some(save(ib).boxes), stop_writing |-> FALSE]
      [] key.kind = "Esc" ->
           [ib |-> stop_writing(ib), new_entry |-> None, stop_writing |-> TRUE]
      [] OTHER -> [ib |-> ib, new_entry |-> None, stop_writing |-> FALSE]

\* InputBoxes::keypress: (new_entry, stop_writing) and the form afterwards
InputBoxes_keypress(ib, key) ==
    LET i == ib.index + 1
        same == [ib |-> ib, new_entry |-> None, stop_writing |-> FALSE]
    IN CASE key.kind = "Ctrl" /\ key.c = "s" ->
              LET s == save(ib)
              IN [ib |-> s.ib, new_entry |-> Some(s.boxes), stop_writing |-> TRUE]
         [] key.kind = "Ctrl" /\ key.c = "n" -> [same EXCEPT !.ib = increment_box(ib)]
         [] key.kind = "Ctrl" /\ key.c = "b" -> [same EXCEPT !.ib = decrement_box(ib)]
         [] key.kind = "Char" ->
              IF ~ib.boxes[i].markdown /\ key.c = "\n"
              THEN [same EXCEPT !.ib = increment_box(ib)]
              ELSE [same EXCEPT !.ib.boxes[i].content = Append(ib.boxes[i].content, key.c)]
         [] key.kind = "Backspace" -> [same EXCEPT !.ib.boxes[i].content = Pop(ib.boxes[i].content)]
         [] key.kind = "Up" ->
              IF ib.boxes[i].scroll > 0
              THEN [same EXCEPT !.ib.boxes[i].scroll = ib.boxes[i].scroll - 1]
              ELSE same
         [] key.kind = "Down" -> [same EXCEPT !.ib.boxes[i].scroll = ib.boxes[i].scroll + 1]
         [] key.kind = "Esc" ->
              [ib |-> stop_writing(ib), new_entry |-> None, stop_writing |-> TRUE]
         [] OTHER -> same

----------------------------------------------------------------------------
(* Entries (entry.rs) *)

EntryTypes == <<"Task", "Journal", "Research", "Event">>

\* GooseberryEntryType::get_input_boxes
get_input_boxes(entry_type) ==
    CASE entry_type = "Task" ->
           InputBoxes_new(<<InputBox_new("Task", FALSE), InputBox_new("Description", TRUE),
                            InputBox_new("Tags", FALSE)>>)
      [] entry_type = "Journal" ->
           InputBoxes_new(<<InputBox_new("Description", FALSE), InputBox_new("Tags", FALSE)>>)
      [] entry_type = "Research" ->
           InputBoxes_new(<<InputBox_new("Title", FALSE), InputBox_new("Notes", TRUE),
                            InputBox_new("Tags", FALSE)>>)
      [] entry_type = "Event" ->
           InputBoxes_new(<<InputBox_new("Title", FALSE), InputBox_new("Notes", TRUE),
                            InputBox_new("People", FALSE), InputBox_new("Tags", FALSE)>>)

\* <Variant>Entry::from_input_boxes through GooseberryEntry::from_input_boxes;
\* now is Utc::now()
from_input_boxes(id, entry_type, boxes, now) ==
    CASE entry_type = "Task" ->
           [entry_type |-> "Task", id |-> id, task |-> boxes[1].content,
            description |-> boxes[2].content, datetime |-> now, done |-> FALSE,
            tags |-> SplitTrim(boxes[3].content)]
      [] entry_type = "Journal" ->
           [entry_type |-> "Journal", id |-> id, description |-> boxes[1].content,
            datetime |-> now, tags |-> SplitTrim(boxes[2].content)]
      [] entry_type = "Research" ->
           [entry_type |-> "Research", id |-> id, title |-> boxes[1].content,
            notes |-> boxes[2].content, datetime |-> now,
            tags |-> SplitTrim(boxes[3].content)]
      [] entry_type = "Event" ->
           [entry_type |-> "Event", id |-> id, title |-> boxes[1].content,
            notes |-> boxes[2].content, datetime |-> now,
            people |-> SplitTrim(boxes[3].content), tags |-> SplitTrim(boxes[4].content)]

\* <Variant>Entry::to_input_boxes through GooseberryEntry::to_input_boxes
to_input_boxes(e) ==
    LET fresh == get_input_boxes(e.entry_type)
    IN CASE e.entry_type = "Task" ->
              replace_content(replace_content(replace_content(fresh,
                  0, e.task), 1, e.description), 2, Join(e.tags))
         [] e.entry_type = "Journal" ->
              replace_content(replace_content(fresh, 0, e.description), 1, Join(e.tags))
         [] e.entry_type = "Research" ->
              replace_content(replace_content(replace_content(fresh,
                  0, e.title), 1, e.notes), 2, Join(e.tags))
         [] e.entry_type = "Event" ->
              replace_content(replace_content(replace_content(replace_content(fresh,
                  0, e.title), 1, e.notes), 2, Join(e.people)), 3, Join(e.tags))

\* a merge that keeps the id and the datetime of the old entry and forgets its
\* done flag
Task_merge_forgets_done(e, old_entry) ==
    [e EXCEPT !.id = old_entry.id, !.datetime = old_entry.datetime]

\* TaskEntry::merge_with_entry
Task_merge_with_entry(e, old_entry) ==
    [e EXCEPT !.id = old_entry.id, !.datetime = old_entry.datetime, !.done = old_entry.done]

\* JournalEntry / ResearchEntry / EventEntry::merge_with_entry
Other_merge_with_entry(e, old_entry) ==
    [e EXCEPT !.id = old_entry.id, !.datetime = old_entry.datetime]

\* GooseberryEntry::merge_with_entry: merges only entries of the same variant
merge_with_entry(e, old_entry) ==
    IF e.entry_type # old_entry.entry_type THEN e
    ELSE IF e.entry_type = "Task" THEN Task_merge_with_entry(e, old_entry)
    ELSE Other_merge_with_entry(e, old_entry)

\* a toggle that marks the task as done
toggle_sets_done(e) == [e EXCEPT !.done = TRUE]

\* TaskEntry::toggle
toggle(e) == [e EXCEPT !.done = ~e.done]

----------------------------------------------------------------------------
(* HashMap and Vec *)

\* HashMap::insert
Insert(m, k, v) == [x \in (DOMAIN m) \cup {k} |-> IF x = k THEN v ELSE m[x]]

\* HashMap::remove
Remove(m, k) == [x \in (DOMAIN m) \ {k} |-> m[x]]

\* Vec::remove_item: removes the first occurrence, if any
remove_item(v, x) ==
    IF \A i \in 1..Len(v) : v[i] # x THEN v
    ELSE LET k == CHOOSE i \in 1..Len(v) : v[i] = x /\ \A j \in 1..(i - 1) : v[j] # x
         IN SubSeq(v, 1, k - 1) \o SubSeq(v, k + 1, Len(v))

\* Iterator::max().unwrap_or(&0)
MaxOr0(v) ==
    IF v = <<>> THEN 0
    ELSE CHOOSE m \in {v[i] : i \in 1..Len(v)} : \A i \in 1..Len(v) : v[i] <= m

\* format!("{}", n): the decimal digits of n
RECURSIVE Format(_)
Format(n) ==
    LET d == CHOOSE c \in AllDigits : DigitValue(c) = n % 10
    IN IF n < 10 THEN <<d>> ELSE Append(Format(n \div 10), d)

RECURSIVE DigitsValue(_)
DigitsValue(s) ==
    IF s = <<>> THEN 0 ELSE 10 * DigitsValue(SubSeq(s, 1, Len(s) - 1)) + DigitValue(s[Len(s)])

\* str::parse::<u64> of a digit string: the value, or ParseIntError above the
\* largest u64 (IdLimit here)
Parse(s) ==
    IF Len(s) > Len(Format(IdLimit)) \/ DigitsValue(s) > IdLimit
    THEN ParseIntError
    ELSE Ok(DigitsValue(s))

----------------------------------------------------------------------------
(* Entry files (entry.rs): to_file and from_file *)

\* utility::formatting::HEADER_MARK
HEADER_MARK == <<"-", "-", "-">>

\* a DateTime<Utc> is a count of ticks, TicksPerSecond of them to the second
\* (stands for the 10^9 nanoseconds of chrono)
TicksPerSecond == 2

\* str::split(sep) for a separator of several characters
RECURSIVE SplitOn(_, _)
SplitOn(s, sep) ==
    LET at == {i \in 1..(Len(s) - Len(sep) + 1) : SubSeq(s, i, i + Len(sep) - 1) = sep}
    IN IF at = {} THEN <<s>>
       ELSE LET k == CHOOSE i \in at : \A j \in at : i <= j
            IN <<SubSeq(s, 1, k - 1)>> \o SplitOn(SubSeq(s, k + Len(sep), Len(s)), sep)

\* [&str]::join("\n")
RECURSIVE JoinLines(_)
JoinLines(lines) ==
    IF lines = <<>> THEN <<>>
    ELSE IF Len(lines) = 1 THEN lines[1]
    ELSE lines[1] \o <<"\n">> \o JoinLines(Tail(lines))

\* str::parse::<u64>: digits, with an optional leading '+'
ParseU64(s) ==
    LET digits == IF s # <<>> /\ Head(s) = "+" THEN Tail(s) ELSE s
    IN IF digits = <<>> \/ \E i \in 1..Len(digits) : digits[i] \notin AllDigits
       THEN ParseIntError
       ELSE IF DigitsValue(digits) > IdLimit THEN ParseIntError
       ELSE Ok(DigitsValue(digits))

\* str::parse::<bool>
ParseBool(s) ==
    IF s = <<"t", "r", "u", "e">> THEN Ok(TRUE)
    ELSE IF s = <<"f", "a", "l", "s", "e">> THEN Ok(FALSE)
    ELSE Err([kind |-> "ParseBool"])

\* format!("{}", bool)
FormatBool(b) == IF b THEN <<"t", "r", "u", "e">> ELSE <<"f", "a", "l", "s", "e">>

\* datetime.format("%v %r"): the date and the time of day to the second; the
\* text of a calendar date and time stands here as the digits of the whole
\* seconds
FormatDateTime(datetime) == Format(datetime \div TicksPerSecond)

\* NaiveDateTime::parse_from_str(text, "%v %r"), taken as UTC
ParseDateTime(text) ==
    IF text = <<>> \/ \E i \in 1..Len(text) : text[i] \notin AllDigits
    THEN Err([kind |-> "ParseDateTime"])
    ELSE Ok(DigitsValue(text) * TicksPerSecond)

\* impl Display for GooseberryEntryType
TypeName(entry_type) ==
    CASE entry_type = "Task" -> <<"T", "a", "s", "k">>
      [] entry_type = "Journal" -> <<"J", "o", "u", "r", "n", "a", "l">>
      [] entry_type = "Research" -> <<"R", "e", "s", "e", "a", "r", "c", "h">>
      [] entry_type = "Event" -> <<"E", "v", "e", "n", "t">>

\* impl FromStr for GooseberryEntryType
GooseberryEntryType_from_str(text) ==
    LET named == {i \in 1..Len(EntryTypes) : TypeName(EntryTypes[i]) = Trim(text)}
    IN IF named = {} THEN Err([kind |-> "UnknownEntryType"])
       ELSE Ok(EntryTypes[CHOOSE i \in named : TRUE])

\* the header keys as they are written
KeyType_ == <<"T", "y", "p", "e">>
KeyID == <<"I", "D">>
KeyDateTime == <<"D", "a", "t", "e", "T", "i", "m", "e">>
KeyTags == <<"T", "a", "g", "s">>
KeyTask == <<"T", "a", "s", "k">>
KeyDone == <<"D", "o", "n", "e">>
KeyTitle == <<"T", "i", "t", "l", "e">>
KeyPeople == <<"P", "e", "o", "p", "l", "e">>
ColonSpace == <<":", " ">>

\* "<key>: <value>\n"
HeaderLine(key, value) == key \o ColonSpace \o value \o <<"\n">>

\* GooseberryEntryTrait::format_id_datetime_tags, with the newline that follows it
\* in every to_file
format_id_datetime_tags(e) ==
    HeaderLine(KeyType_, TypeName(e.entry_type))
        \o HeaderLine(KeyID, Format(e.id))
        \o HeaderLine(KeyDateTime, FormatDateTime(e.datetime))
        \o HeaderLine(KeyTags, Join(e.tags))

\* <Variant>Entry::to_file: the text written to the file
to_file(e) ==
    LET mark == HEADER_MARK \o <<"\n">>
    IN CASE e.entry_type = "Task" ->
              mark \o format_id_datetime_tags(e) \o HeaderLine(KeyTask, e.task)
                   \o HeaderLine(KeyDone, FormatBool(e.done)) \o mark \o e.description
         [] e.entry_type = "Journal" ->
              mark \o format_id_datetime_tags(e) \o mark \o e.description
         [] e.entry_type = "Research" ->
              mark \o format_id_datetime_tags(e) \o HeaderLine(KeyTitle, e.title)
                   \o mark \o e.notes
         [] e.entry_type = "Event" ->
              mark \o format_id_datetime_tags(e) \o HeaderLine(KeyTitle, e.title)
                   \o HeaderLine(KeyPeople, Join(e.people)) \o mark \o e.notes

\* a panic (unwrap of None, index out of bounds)
Panic == Err([kind |-> "panic"])
MissingHeader == Err([kind |-> "MissingHeader"])
MissingHeaderElement(element) == Err([kind |-> "MissingHeaderElement", element |-> element])

\* consume_markdown_header, the loop: the index of the closing HEADER_MARK among
\* lines[from..], 0 when the lines run out first (lines.next().unwrap() panics)
ClosingMark(lines, from) ==
    LET marks == {i \in from..Len(lines) : lines[i] = HEADER_MARK}
    IN IF marks = {} THEN 0 ELSE CHOOSE i \in marks : \A j \in marks : i <= j

\* consume_markdown_header, the map over header_lines collected into a HashMap:
\* key parts[0], value parts[1] of split(": "); of two lines with one key the later
\* one stays
HeaderMap(header_lines) ==
    LET parts == [i \in 1..Len(header_lines) |-> SplitOn(header_lines[i], ColonSpace)]
        keys == {parts[i][1] : i \in 1..Len(parts)}
    IN [k \in keys |->
          parts[CHOOSE i \in 1..Len(parts) :
                    parts[i][1] = k /\ \A j \in (i + 1)..Len(parts) : parts[j][1] # k][2]]

\* a reader that takes a text without opening mark as one with an empty header
get_header_lines_unmarked(content) ==
    LET lines == Split(content, "\n")
        close == ClosingMark(lines, 2)
        header_lines == SubSeq(lines, 2, close - 1)
    IN IF lines[1] # HEADER_MARK THEN Ok([header |-> HeaderMap(<<>>), lines |-> content])
       ELSE IF close = 0 THEN Panic
       ELSE IF \E i \in 1..Len(header_lines) :
                   Len(SplitOn(header_lines[i], ColonSpace)) < 2 THEN Panic
       ELSE Ok([header |-> HeaderMap(header_lines),
                lines |-> JoinLines(SubSeq(lines, close + 1, Len(lines)))])

\* get_header_lines with consume_markdown_header: (header, lines) of the text of a
\* file
get_header_lines(content) ==
    LET lines == Split(content, "\n")
        close == ClosingMark(lines, 2)
        header_lines == SubSeq(lines, 2, close - 1)
    IN IF lines[1] # HEADER_MARK THEN MissingHeader
       ELSE IF close = 0 THEN Panic
       ELSE IF \E i \in 1..Len(header_lines) :
                   Len(SplitOn(header_lines[i], ColonSpace)) < 2 THEN Panic
       ELSE Ok([header |-> HeaderMap(header_lines),
                lines |-> JoinLines(SubSeq(lines, close + 1, Len(lines)))])

\* header.get(key): the value, when there is one
Value(header, key) == IF key \in DOMAIN header THEN header[key] ELSE <<>>

\* a lookup that takes the empty value for a key that is not there
Get_or_default(header, key, element, converted) == converted

\* header.get(key).ok_or(MissingHeaderElement { element })?, and then converted,
\* the result of converting the value
Get(header, key, element, converted) ==
    IF key \notin DOMAIN header THEN MissingHeaderElement(element) ELSE converted

\* the first error of a sequence of results, or Ok of all their values
AllOk(results) ==
    LET bad == {i \in 1..Len(results) : ~results[i].ok}
    IN IF bad = {} THEN Ok([i \in 1..Len(results) |-> results[i].val])
       ELSE results[CHOOSE i \in bad : \A j \in bad : i <= j]

\* get_id_datetime_tags
get_id_datetime_tags(header) ==
    AllOk(<<Get(header, KeyID, "ID", ParseU64(Value(header, KeyID))),
            Get(header, KeyDateTime, "DateTime",
                ParseDateTime(Trim(Value(header, KeyDateTime)))),
            Get(header, KeyTags, "Tags", Ok(SplitTrim(Value(header, KeyTags))))>>)

\* <Variant>Entry::from_header_lines, after get_id_datetime_tags returned idt
variant_from_header_lines(entry_type, header, lines, idt) ==
    CASE entry_type = "Task" ->
           LET r == AllOk(<<Get(header, KeyTask, "Task", Ok(Trim(Value(header, KeyTask)))),
                            Get(header, KeyDone, "Done",
                                ParseBool(Trim(Value(header, KeyDone))))>>)
           IN IF ~r.ok THEN r
              ELSE Ok([entry_type |-> "Task", id |-> idt[1], task |-> r.val[1],
                       description |-> lines, datetime |-> idt[2], done |-> r.val[2],
                       tags |-> idt[3]])
      [] entry_type = "Journal" ->
           Ok([entry_type |-> "Journal", id |-> idt[1], description |-> lines,
               datetime |-> idt[2], tags |-> idt[3]])
      [] entry_type = "Research" ->
           LET r == Get(header, KeyTitle, "Title", Ok(Trim(Value(header, KeyTitle))))
           IN IF ~r.ok THEN r
              ELSE Ok([entry_type |-> "Research", id |-> idt[1], title |-> r.val,
                       notes |-> lines, datetime |-> idt[2], tags |-> idt[3]])
      [] entry_type = "Event" ->
           LET r == AllOk(<<Get(header, KeyTitle, "Title", Ok(Trim(Value(header, KeyTitle)))),
                            Get(header, KeyPeople, "People",
                                Ok(SplitTrim(Value(header, KeyPeople))))>>)
           IN IF ~r.ok THEN r
              ELSE Ok([entry_type |-> "Event", id |-> idt[1], title |-> r.val[1],
                       notes |-> lines, datetime |-> idt[2], people |-> r.val[2],
                       tags |-> idt[3]])

\* <Variant>Entry::from_header_lines
typed_from_header_lines(entry_type, header, lines) ==
    LET idt == get_id_datetime_tags(header)
    IN IF ~idt.ok THEN idt
       ELSE variant_from_header_lines(entry_type, header, lines, idt.val)

\* GooseberryEntry::from_header_lines
from_header_lines(header, lines) ==
    LET entry_type == Get(header, KeyType_, "Type",
                      GooseberryEntryType_from_str(Value(header, KeyType_)))
    IN IF ~entry_type.ok THEN entry_type
       ELSE typed_from_header_lines(entry_type.val, header, lines)

\* GooseberryEntry::from_file on a file that holds content
from_file(content) ==
    LET hl == get_header_lines(content)
    IN IF ~hl.ok THEN hl ELSE from_header_lines(hl.val.header, hl.val.lines)

----------------------------------------------------------------------------
(* GooseberryTab (app.rs) *)

\* GooseberryTab::from_folder; files are the entries GooseberryEntry::from_file
\* returns for the records "<entry_type>_*.md" of the folder, in glob order.
\* The field folder stands for these records: for every id with a record
\* "<entry_type>_<id>.md", the entry whose text the record holds
from_folder(entry_type, files) ==
    LET visible_ids == [i \in 1..Len(files) |-> files[i].id]
        entries == [id \in {files[i].id : i \in 1..Len(files)} |->
                      LET last == CHOOSE i \in 1..Len(files) :
                                     /\ files[i].id = id
                                     /\ \A j \in (i + 1)..Len(files) : files[j].id # id
                      IN files[last]]
    IN [entry_type |-> entry_type,
        entries |-> entries,
        fold |-> FALSE,
        visible_ids |-> visible_ids,
        is_writing |-> FALSE,
        input_boxes |-> get_input_boxes(entry_type),
        next_id |-> MaxOr0(visible_ids) + 1,
        folder |-> entries,
        scroll |-> 0,
        selected_entry |-> 0,
        editing_entry |-> None,
        picking_entry |-> FALSE,
        picking_char |-> None]

\* GooseberryTab::save_entry; io: the file is created and written. A failing
\* storage operation leaves the records as they were
save_entry(tab, id, io) ==
    IF id \notin DOMAIN tab.entries
    THEN [tab |-> tab, res |-> MissingEntryID(tab.entry_type, id)]
    ELSE IF ~io THEN [tab |-> tab, res |-> IoError]
    ELSE [tab |-> [tab EXCEPT !.folder = Insert(tab.folder, id, tab.entries[id])],
          res |-> Ok(<<>>)]

\* a toggle that looks the id up on every tab
toggle_task_entry_any_tab(tab, io) ==
    IF tab.selected_entry \notin DOMAIN tab.entries
    THEN [tab |-> tab, res |-> MissingEntryID(tab.entry_type, tab.selected_entry)]
    ELSE LET t_entry == tab.entries[tab.selected_entry]
             toggled == IF t_entry.entry_type = "Task" THEN toggle(t_entry) ELSE t_entry
             tab1 == [tab EXCEPT !.entries[tab.selected_entry] = toggled]
         IN save_entry(tab1, tab.selected_entry, io)

\* GooseberryTab::toggle_task_entry
toggle_task_entry(tab, io) ==
    IF tab.entry_type = "Task"
    THEN IF tab.selected_entry \notin DOMAIN tab.entries
         THEN [tab |-> tab, res |-> MissingEntryID(tab.entry_type, tab.selected_entry)]
         ELSE LET t_entry == tab.entries[tab.selected_entry]
                  toggled == IF t_entry.entry_type = "Task" THEN toggle(t_entry) ELSE t_entry
                  tab1 == [tab EXCEPT !.entries[tab.selected_entry] = toggled]
              IN save_entry(tab1, tab.selected_entry, io)
    ELSE [tab |-> tab, res |-> Ok(<<>>)]

\* GooseberryTab::start_editing
start_editing(tab) ==
    IF tab.selected_entry \notin DOMAIN tab.entries
    THEN [tab |-> tab, res |-> MissingEntryID(tab.entry_type, tab.selected_entry)]
    ELSE LET entry == tab.entries[tab.selected_entry]
         IN [tab |-> [tab EXCEPT !.input_boxes = to_input_boxes(entry),
                                 !.is_writing = TRUE,
                                 !.editing_entry = Some(entry)],
             res |-> Ok(<<>>)]

\* GooseberryTab::merge_entry
merge_entry(tab, boxes, now, io) ==
    IF ~IsSome(tab.editing_entry)
    THEN [tab |-> tab, res |-> Err([kind |-> "OutOfCheeseError"])]
    ELSE LET editing_entry == tab.editing_entry[1]
             id == editing_entry.id
             new_entry == merge_with_entry(
                              from_input_boxes(id, tab.entry_type, boxes, now), editing_entry)
             tab1 == [tab EXCEPT !.entries = Insert(tab.entries, id, new_entry)]
         IN save_entry(tab1, id, io)

\* GooseberryTab::add_entry
add_entry(tab, boxes, id, now, io) ==
    LET new_entry == from_input_boxes(id, tab.entry_type, boxes, now)
        tab1 == [tab EXCEPT !.entries = Insert(tab.entries, id, new_entry),
                            !.visible_ids = Append(tab.visible_ids, id)]
    IN save_entry(tab1, id, io)

\* a delete that does not look the id up first
delete_entry_unchecked(tab, id, io) ==
    [tab |-> [tab EXCEPT !.entries = Remove(tab.entries, id),
                         !.visible_ids = remove_item(tab.visible_ids, id),
                         !.folder = IF io THEN Remove(tab.folder, id) ELSE tab.folder],
     res |-> IF io THEN Ok(<<>>) ELSE IoError]

\* a delete that leaves the record of the entry in the folder
delete_entry_keeps_record(tab, id, io) ==
    IF id \notin DOMAIN tab.entries
    THEN [tab |-> tab, res |-> MissingEntryID(tab.entry_type, id)]
    ELSE [tab |-> [tab EXCEPT !.entries = Remove(tab.entries, id),
                              !.visible_ids = remove_item(tab.visible_ids, id)],
          res |-> IF io THEN Ok(<<>>) ELSE IoError]

\* GooseberryTab::delete_entry; io: the record file is removed
delete_entry(tab, id, io) ==
    IF id \notin DOMAIN tab.entries
    THEN [tab |-> tab, res |-> MissingEntryID(tab.entry_type, id)]
    ELSE [tab |-> [tab EXCEPT !.entries = Remove(tab.entries, id),
                              !.visible_ids = remove_item(tab.visible_ids, id),
                              !.folder = IF io THEN Remove(tab.folder, id) ELSE tab.folder],
          res |-> IF io THEN Ok(<<>>) ELSE IoError]

\* GooseberryTab::toggle_fold
toggle_fold(tab) == [tab EXCEPT !.fold = ~tab.fold]

\* GooseberryTab::keypress, writing mode: `if stop_writing { ... }`
stop_if(stopped, tab) ==
    IF stopped THEN [tab EXCEPT !.is_writing = FALSE] ELSE tab

\* GooseberryTab::keypress, writing mode: `self.merge_entry(new_entry)?;
\* self.editing_entry = None;`, m what merge_entry did
after_merge(m, stopped) ==
    IF ~m.res.ok
    THEN [tab |-> m.tab, res |-> m.res, op |-> "merge_entry"]
    ELSE [tab |-> stop_if(stopped, [m.tab EXCEPT !.editing_entry = None]),
          res |-> Ok(<<>>), op |-> "merge_entry"]

\* GooseberryTab::keypress, writing mode: `self.add_entry(new_entry,
\* self.next_id)?; self.next_id += 1;`, a what add_entry did
after_add(a, stopped) ==
    IF ~a.res.ok
    THEN [tab |-> a.tab, res |-> a.res, op |-> "add_entry"]
    ELSE [tab |-> stop_if(stopped, [a.tab EXCEPT !.next_id = a.tab.next_id + 1]),
          res |-> Ok(<<>>), op |-> "add_entry"]

\* GooseberryTab::keypress, writing mode, after self.input_boxes.keypress
\* returned r and left the form as tab1 has it
after_input_boxes(tab1, r, now, io) ==
    IF IsSome(r.new_entry)
    THEN IF IsSome(tab1.editing_entry)
         THEN after_merge(merge_entry(tab1, r.new_entry[1], now, io), r.stop_writing)
         ELSE after_add(add_entry(tab1, r.new_entry[1], tab1.next_id, now, io),
                        r.stop_writing)
    ELSE [tab |-> stop_if(r.stop_writing, tab1), res |-> Ok(<<>>), op |-> "keypress"]

\* the tab with its form as InputBoxes::keypress left it
with_input_boxes(tab, r) == [tab EXCEPT !.input_boxes = r.ib]

\* the writing branch, r what self.input_boxes.keypress returned
writing_branch(tab, r, now, io) == after_input_boxes(with_input_boxes(tab, r), r, now, io)

\* GooseberryTab::keypress, writing mode
keypress_writing(tab, key, now, io) ==
    writing_branch(tab, InputBoxes_keypress(tab.input_boxes, key), now, io)

\* GooseberryTab::keypress, '0'..'9': `self.selected_entry = <...>.parse()?`
select(tab, parsed) ==
    IF ~parsed.ok
    THEN [tab |-> tab, res |-> parsed, op |-> "keypress"]
    ELSE [tab |-> [tab EXCEPT !.selected_entry = parsed.val],
          res |-> Ok(<<>>), op |-> "keypress"]

\* a picker that takes every digit as a new id
keypress_digit_replaces(tab, c) ==
    IF tab.picking_entry
    THEN select(tab, Parse(<<c>>))
    ELSE [tab |-> tab, res |-> Ok(<<>>), op |-> "keypress"]

\* a picker that takes digits whether or not a command was chosen
keypress_digit_unarmed(tab, c) ==
    IF tab.selected_entry > 0
    THEN select(tab, Parse(Append(Format(tab.selected_entry), c)))
    ELSE select(tab, Parse(<<c>>))

\* GooseberryTab::keypress, '0'..'9' in scrolling mode
keypress_digit(tab, c) ==
    IF tab.picking_entry
    THEN IF tab.selected_entry > 0
         THEN select(tab, Parse(Append(Format(tab.selected_entry), c)))
         ELSE select(tab, Parse(<<c>>))
    ELSE [tab |-> tab, res |-> Ok(<<>>), op |-> "keypress"]

\* GooseberryTab::keypress, '\n' in scrolling mode: the picker is reset after the
\* command d returned Ok; an Err leaves through `?` before that
after_command(d, op) ==
    IF ~d.res.ok
    THEN [tab |-> d.tab, res |-> d.res, op |-> op]
    ELSE [tab |-> [d.tab EXCEPT !.picking_entry = FALSE,
                                !.selected_entry = 0,
                                !.picking_char = None],
          res |-> Ok(<<>>), op |-> op]

\* GooseberryTab::keypress, '\n' in scrolling mode
keypress_enter(tab, io) ==
    IF IsSome(tab.picking_char)
    THEN CASE tab.picking_char[1] = "t" ->
                after_command(toggle_task_entry(tab, io), "toggle_task_entry")
           [] tab.picking_char[1] = "e" ->
                after_command(start_editing(tab), "start_editing")
           [] tab.picking_char[1] = "d" ->
                after_command(delete_entry(tab, tab.selected_entry, io), "delete_entry")
           [] OTHER -> after_command([tab |-> tab, res |-> Ok(<<>>)], "keypress")
    ELSE after_command([tab |-> tab, res |-> Ok(<<>>)], "keypress")

\* GooseberryTab::keypress, scrolling mode
keypress_scrolling(tab, key, io) ==
    LET same == [tab |-> tab, res |-> Ok(<<>>), op |-> "keypress"]
    IN CASE key.kind = "Char" /\ key.c = "n" ->
              [tab |-> [tab EXCEPT !.is_writing = TRUE,
                                   !.input_boxes = start_writing(tab.input_boxes)],
               res |-> Ok(<<>>), op |-> "keypress"]
         [] key.kind = "Char" /\ key.c = "\t" ->
              [tab |-> toggle_fold(tab), res |-> Ok(<<>>), op |-> "keypress"]
         [] key.kind = "Char" /\ key.c \in {"t", "e", "d"} ->
              [tab |-> [tab EXCEPT !.picking_char = Some(key.c),
                                   !.picking_entry = TRUE,
                                   !.selected_entry = 0],
               res |-> Ok(<<>>), op |-> "keypress"]
         [] key.kind = "Char" /\ key.c \in AllDigits -> keypress_digit(tab, key.c)
         [] key.kind = "Char" /\ key.c = "\n" -> keypress_enter(tab, io)
         [] key.kind = "Down" ->
              [tab |-> [tab EXCEPT !.scroll = tab.scroll + 1], res |-> Ok(<<>>), op |-> "keypress"]
         [] key.kind = "Up" ->
              [tab |-> IF tab.scroll > 0 THEN [tab EXCEPT !.scroll = tab.scroll - 1] ELSE tab,
               res |-> Ok(<<>>), op |-> "keypress"]
         [] OTHER -> same

\* GooseberryTab::keypress
GooseberryTab_keypress(tab, key, now, io) ==
    IF tab.is_writing
    THEN keypress_writing(tab, key, now, io)
    ELSE keypress_scrolling(tab, key, io)

\* keys.sort_by(|a, b| entries[a].datetime().cmp(entries[b].datetime())): a stable
\* sort of ids that are all in entries
RECURSIVE sort_by_datetime(_, _)
sort_by_datetime(entries, keys) ==
    IF keys = <<>> THEN <<>>
    ELSE LET earlier(i) == \A j \in 1..Len(keys) :
                              \/ entries[keys[i]].datetime < entries[keys[j]].datetime
                              \/ entries[keys[i]].datetime = entries[keys[j]].datetime /\ i <= j
             first == CHOOSE i \in 1..Len(keys) : earlier(i)
         IN <<keys[first]>>
                \o sort_by_datetime(entries, SubSeq(keys, 1, first - 1)
                                                 \o SubSeq(keys, first + 1, Len(keys)))

\* GooseberryEntry::entries_to_styled_texts_same_type: the texts are taken as the
\* ids in the order shown and whether they are shown folded. entries[a] on an id
\* that is not in entries and keys[0] on no keys panic
entries_to_styled_texts_same_type(entries, visible_ids, fold) ==
    IF visible_ids = <<>> THEN Panic
    ELSE IF \E i \in 1..Len(visible_ids) : visible_ids[i] \notin DOMAIN entries THEN Panic
    ELSE LET keys == sort_by_datetime(entries, visible_ids)
             entry_type == entries[keys[1]].entry_type
         IN IF \E id \in DOMAIN entries : entries[id].entry_type # entry_type
            THEN Err([kind |-> "OutOfCheeseError"])
            ELSE Ok([fold |-> fold, ids |-> keys])

\* GooseberryTab::render, the list of entries:
\* entries_to_styled_texts_same_type(..).unwrap()
render(tab) ==
    LET texts == entries_to_styled_texts_same_type(tab.entries, tab.visible_ids, tab.fold)
    IN IF texts.ok THEN texts ELSE Panic

----------------------------------------------------------------------------
(* GooseberryTabs (app.rs) *)

NumTabs == Len(EntryTypes)

\* GooseberryTabs::from_folder
GooseberryTabs_from_folder(folder) ==
    [i \in 0..(NumTabs - 1) |-> from_folder(EntryTypes[i + 1], folder[EntryTypes[i + 1]])]

\* a load of a tab that leaves out the records that do not decode
GooseberryTab_from_good_contents(entry_type, contents) ==
    LET Decodes(content) == from_file(content).ok
        good == SelectSeq(contents, Decodes)
    IN Ok(from_folder(entry_type, [i \in 1..Len(good) |-> from_file(good[i]).val]))

\* GooseberryTab::from_folder on the texts of the records "<entry_type>_*.md" in
\* glob order: `GooseberryEntry::from_file(..)?` on every one, the first failure
\* is what is returned
GooseberryTab_from_contents(entry_type, contents) ==
    LET files == AllOk([i \in 1..Len(contents) |-> from_file(contents[i])])
    IN IF files.ok THEN Ok(from_folder(entry_type, files.val)) ELSE files

\* GooseberryTabs::from_folder on the texts of the records of a folder: the tabs
\* in the order Task, Journal, Research, Event, `?` on every one
GooseberryTabs_from_contents(folder) ==
    LET loaded == AllOk([i \in 1..NumTabs |->
                           GooseberryTab_from_contents(EntryTypes[i], folder[EntryTypes[i]])])
    IN IF loaded.ok THEN Ok([i \in 0..(NumTabs - 1) |-> loaded.val[i + 1]]) ELSE loaded

\* a tab set that never takes its active tab to be writing
is_writing_never(ts, idx) == FALSE

\* GooseberryTabs::is_writing
is_writing(ts, idx) == ts[idx].is_writing

\* GooseberryTabs::next
next(idx) == (idx + 1) % NumTabs

\* a tab set that stays on the first tab on Left
previous_stops(idx) == IF idx > 0 THEN idx - 1 ELSE 0

\* GooseberryTabs::previous
previous(idx) == IF idx > 0 THEN idx - 1 ELSE NumTabs - 1

\* a tab set whose tabs share one picker
routed_one_picker(ts, idx, r) ==
    [tabs |-> [i \in DOMAIN ts |->
                 IF i = idx THEN r.tab
                 ELSE [ts[i] EXCEPT !.picking_entry = r.tab.picking_entry,
                                    !.picking_char = r.tab.picking_char,
                                    !.selected_entry = r.tab.selected_entry]],
     index |-> idx, res |-> IF r.res.ok THEN Ok(FALSE) ELSE r.res, op |-> r.op]

\* GooseberryTabs::keypress: `self.tabs[self.index].keypress(terminal_size, key)?;
\* ... Ok(false)`, r what the tab's keypress did
routed(ts, idx, r) ==
    [tabs |-> [ts EXCEPT ![idx] = r.tab], index |-> idx,
     res |-> IF r.res.ok THEN Ok(FALSE) ELSE r.res, op |-> r.op]

\* a tab set that takes 'q' as the quit key in every mode
GooseberryTabs_keypress_quits_always(ts, idx, key, now, io) ==
    IF key = Char("q")
    THEN [tabs |-> ts, index |-> idx, res |-> Ok(TRUE), op |-> "quit"]
    ELSE routed(ts, idx, GooseberryTab_keypress(ts[idx], key, now, io))

\* GooseberryTabs::keypress
GooseberryTabs_keypress(ts, idx, key, now, io) ==
    IF ~is_writing(ts, idx)
    THEN CASE key = Char("q") ->
                [tabs |-> ts, index |-> idx, res |-> Ok(TRUE), op |-> "quit"]
           [] key = Right ->
                [tabs |-> ts, index |-> next(idx), res |-> Ok(FALSE), op |-> "next"]
           [] key = Left ->
                [tabs |-> ts, index |-> previous(idx), res |-> Ok(FALSE), op |-> "previous"]
           [] OTHER -> routed(ts, idx, GooseberryTab_keypress(ts[idx], key, now, io))
    ELSE routed(ts, idx, GooseberryTab_keypress(ts[idx], key, now, io))

----------------------------------------------------------------------------
(* The folders the application is started on *)

\* the entry a record "<entry_type>_<id>.md" decodes to: empty text and no tag
\* for id 1, some text for the others; Task 2 is done
Record(entry_type, id) ==
    LET text == IF id = 1 THEN <<>> ELSE <<"a">>
    IN CASE entry_type = "Task" ->
              [entry_type |-> "Task", id |-> id, task |-> text, description |-> <<>>,
               datetime |-> 0, done |-> (id = 2), tags |-> <<<<>>>>]
         [] entry_type = "Journal" ->
              [entry_type |-> "Journal", id |-> id, description |-> text,
               datetime |-> 0, tags |-> <<<<>>>>]
         [] entry_type = "Research" ->
              [entry_type |-> "Research", id |-> id, title |-> text, notes |-> <<>>,
               datetime |-> 0, tags |-> <<<<>>>>]
         [] entry_type = "Event" ->
              [entry_type |-> "Event", id |-> id, title |-> text, notes |-> <<>>,
               datetime |-> 0, people |-> <<<<>>>>, tags |-> <<<<>>>>]

\* a folder with the records 1..n of every entry type
Folder(n) ==
    [t \in {EntryTypes[i] : i \in 1..NumTabs} |-> [id \in 1..n |-> Record(t, id)]]

Folders == {Folder(n) : n \in 0..2}

----------------------------------------------------------------------------
(* The state machine *)

Tab == tabs[index]

\* characters held by the boxes of a form
RECURSIVE ContentLen(_)
ContentLen(boxes) ==
    IF boxes = <<>> THEN 0 ELSE Len(boxes[1].content) + ContentLen(Tail(boxes))

\* no entry file is looked at
NoFile == [pc |-> "none"]

\* no form is looked at on its own
NoForm == [pc |-> "none"]
\* no event is sent
NoEvents == [rx |-> <<>>, sent |-> <<>>, handled |-> <<>>, ticks |-> 0]

\* the state after GooseberryTabs::from_folder on one of the folders fs
Started(fs) ==
    /\ \E folder \in fs : tabs = GooseberryTabs_from_folder(folder)
    /\ index = 0
    /\ outcome = [key |-> KeyClass(NoKey), res |-> Ok(FALSE), op |-> "from_folder"]
    /\ running = "waiting"
    /\ deleted = [i \in 0..(NumTabs - 1) |-> {}]
    /\ file = NoFile
    /\ form = NoForm
    /\ events = NoEvents

Init == Started(Folders)

\* the loop of main.rs around app.keypress(key)?: an Err leaves the loop through
\* `?`, Ok(true) through break
LoopAfter(res) ==
    IF ~res.ok THEN "error" ELSE IF res.val THEN "quit" ELSE "waiting"

\* Who calls GooseberryTabs::keypress: the loop of main.rs or a caller that goes
\* on after every result; and whether storage operations may fail
Caller == [loop |-> FALSE, io |-> BOOLEAN]
MainLoop == [loop |-> TRUE, io |-> BOOLEAN]
\* a caller whose storage never fails
Reliable == [loop |-> FALSE, io |-> {TRUE}]

\* the ids of the catalogs ts that are no longer in the catalogs ts1, added to gone
Gone(gone, ts, ts1) ==
    [i \in 0..(NumTabs - 1) |->
        gone[i] \cup ((DOMAIN ts[i].entries) \ (DOMAIN ts1[i].entries))]

\* the state after GooseberryTabs::keypress did r on key
Applied(key, r, env) ==
    /\ tabs' = r.tabs
    /\ index' = r.index
    /\ outcome' = [key |-> KeyClass(key), res |-> r.res, op |-> r.op]
    /\ running' = IF env.loop THEN LoopAfter(r.res) ELSE running
    /\ deleted' = Gone(deleted, tabs, r.tabs)
    /\ file' = file
    /\ form' = form

\* the same for a caller that is given the key
Returned(key, r, env) == Applied(key, r, env) /\ events' = events

\* one call of GooseberryTabs::keypress
Handle(key, env) ==
    /\ env.loop => running = "waiting"
    /\ \E now \in Times, io \in env.io :
           Returned(key, GooseberryTabs_keypress(tabs, index, key, now, io), env)

\* Keys as the user of one tab sends them: the tab is chosen first
Navigating == outcome.op \in {"from_folder", "next", "previous"}
CanType == Tab.is_writing /\ ContentLen(Tab.input_boxes.boxes) < MaxLen
CanSave ==
    /\ Tab.is_writing
    /\ \/ IsSome(Tab.editing_entry)
       \/ Tab.next_id <= MaxNextId /\ Len(Tab.visible_ids) <= MaxNextId

KeyRight(env) == Navigating /\ Handle(Right, env)
KeyLeft(env) == Navigating /\ Handle(Left, env)
KeyNew(env) == ~Tab.is_writing /\ Handle(Char("n"), env)
KeyPick(cs, env) == ~Tab.is_writing /\ \E c \in cs : Handle(Char(c), env)
KeyDigit(ds, env) == ~Tab.is_writing /\ \E c \in ds : Handle(Char(c), env)
KeyEnter(env) == ~Tab.is_writing /\ Handle(Char("\n"), env)
KeyType(env) == CanType /\ \E c \in TypedChars : Handle(Char(c), env)
KeyBackspace(env) == Tab.is_writing /\ Handle(Backspace, env)
KeyNextBox(env) == Tab.is_writing /\ Handle(Ctrl("n"), env)
KeySave(env) == CanSave /\ Handle(Ctrl("s"), env)
KeySaveEdit(env) == IsSome(Tab.editing_entry) /\ KeySave(env)
KeyEsc(env) == Tab.is_writing /\ Handle(Esc, env)
KeyQuit(env) == ~Tab.is_writing /\ Handle(Char("q"), env)

\* The catalog engine: new notes, edits and deletes of a tab, on forms that are
\* saved as they are started (toggle-done is sent in NextLoop, NextReliable and
\* NextPicker)
Next ==
    \/ KeyRight(Caller)
    \/ KeyLeft(Caller)
    \/ KeyNew(Caller)
    \/ KeyPick({"e", "d"}, Caller)
    \/ KeyDigit(Digits, Caller)
    \/ KeyEnter(Caller)
    \/ KeySave(Caller)
    \/ KeyEsc(Caller)

Spec == Init /\ [][Next]_vars

\* Editing, on storage that never fails: entries are edited, typed into and saved;
\* an edit may be left with Esc and taken up again with 'n'
NextEdit ==
    \/ KeyRight(Reliable)
    \/ KeyLeft(Reliable)
    \/ KeyNew(Reliable)
    \/ KeyPick({"e"}, Reliable)
    \/ KeyDigit(Digits, Reliable)
    \/ KeyEnter(Reliable)
    \/ KeyType(Reliable)
    \/ KeyBackspace(Reliable)
    \/ KeyNextBox(Reliable)
    \/ KeySaveEdit(Reliable)
    \/ KeyEsc(Reliable)

InitEdit == Started({Folder(2)})

SpecEdit == InitEdit /\ [][NextEdit]_vars

\* The catalog engine under the loop of main.rs
NextLoop ==
    \/ KeyRight(MainLoop)
    \/ KeyLeft(MainLoop)
    \/ KeyNew(MainLoop)
    \/ KeyPick({"t", "e", "d"}, MainLoop)
    \/ KeyDigit(Digits, MainLoop)
    \/ KeyEnter(MainLoop)
    \/ KeySave(MainLoop)
    \/ KeyEsc(MainLoop)
    \/ KeyQuit(MainLoop)

SpecLoop == Init /\ [][NextLoop]_vars

\* The catalog engine on storage that never fails
NextReliable ==
    \/ KeyRight(Reliable)
    \/ KeyLeft(Reliable)
    \/ KeyNew(Reliable)
    \/ KeyPick({"t", "e", "d"}, Reliable)
    \/ KeyDigit(Digits, Reliable)
    \/ KeyEnter(Reliable)
    \/ KeySave(Reliable)
    \/ KeyEsc(Reliable)

SpecReliable == Init /\ [][NextReliable]_vars

\* The picker: commands are armed, ids typed and confirmed; an edit is left with Esc
NextPicker ==
    \/ KeyRight(Caller)
    \/ KeyLeft(Caller)
    \/ KeyPick({"t", "e", "d"}, Caller)
    \/ KeyDigit(PickerDigits, Caller)
    \/ KeyEnter(Caller)
    \/ KeyEsc(Caller)

SpecPicker == Init /\ [][NextPicker]_vars

\* The tab set: the tabs are switched at any time, forms are opened, walked through
\* and left
KeyNext(env) == index \in DOMAIN tabs /\ Handle(Right, env)
KeyPrevious(env) == index \in DOMAIN tabs /\ Handle(Left, env)

NextTabs ==
    \/ KeyNext(Caller)
    \/ KeyPrevious(Caller)
    \/ KeyNew(Caller)
    \/ KeyNextBox(Caller)
    \/ KeyEsc(Caller)

InitTabs == Started({Folder(1)})

SpecTabs == InitTabs /\ [][NextTabs]_vars

\* The tabs side by side: the tabs are switched at any time, and on each of them
\* forms are opened and left and a delete is armed, the id 1 typed and confirmed
KeyFirstDigit(env) == Tab.selected_entry = 0 /\ KeyDigit({"1"}, env)

NextApart ==
    \/ KeyNext(Reliable)
    \/ KeyPrevious(Reliable)
    \/ KeyNew(Reliable)
    \/ KeyEsc(Reliable)
    \/ KeyPick({"d"}, Reliable)
    \/ KeyFirstDigit(Reliable)
    \/ KeyEnter(Reliable)

SpecApart == InitTabs /\ [][NextApart]_vars

\* The events: the keyboard thread and the tick thread of Events::new send on one
\* channel, and the loop of main.rs takes one event at a time with Events::next

\* the keys the keyboard thread sends at most, and the ticks the tick thread sends
MaxKeys == 3
MaxTicks == 2
EventKeys == {Right, Char("n"), Esc, Char("q")}

Input(key) == [kind |-> "Input", key |-> key]
Tick == [kind |-> "Tick", key |-> NoKey]

\* mpsc::Sender::send: the event is queued behind those sent before
send(rx, event) == Append(rx, event)

\* a receiver that takes the event sent last
recv_last(rx) == [event |-> rx[Len(rx)], rx |-> SubSeq(rx, 1, Len(rx) - 1)]

\* mpsc::Receiver::recv on a channel that holds an event: the event sent first
recv(rx) == [event |-> Head(rx), rx |-> Tail(rx)]

InitEvents == Started({Folder(1)})

\* the keyboard thread: tx.send(Event::Input(key)) for the key read; the send fails
\* and the thread returns once the loop has ended
KeyboardSends ==
    /\ running = "waiting"
    /\ Len(events.sent) < MaxKeys
    /\ \E key \in EventKeys :
           events' = [events EXCEPT !.rx = send(@, Input(key)), !.sent = Append(@, key)]
    /\ UNCHANGED <<tabs, index, outcome, running, deleted, file, form>>

\* the tick thread: tx.send(Event::Tick), then sleep(tick_rate)
TickSends ==
    /\ running = "waiting"
    /\ events.ticks < MaxTicks
    /\ events' = [events EXCEPT !.rx = send(@, Tick), !.ticks = @ + 1]
    /\ UNCHANGED <<tabs, index, outcome, running, deleted, file, form>>

\* the loop of main.rs: events.next()? returns Event::Input(key) and
\* app.keypress(key)? is called
ReceivesInput ==
    /\ running = "waiting"
    /\ events.rx # <<>>
    /\ recv(events.rx).event.kind = "Input"
    /\ \E now \in Times, io \in MainLoop.io :
           Applied(recv(events.rx).event.key,
                   GooseberryTabs_keypress(tabs, index, recv(events.rx).event.key, now, io),
                   MainLoop)
    /\ events' = [events EXCEPT !.rx = recv(events.rx).rx,
                                !.handled = Append(@, recv(events.rx).event.key)]

\* the loop of main.rs: events.next()? returns Event::Tick, and the loop draws and
\* waits again
ReceivesTick ==
    /\ running = "waiting"
    /\ events.rx # <<>>
    /\ recv(events.rx).event.kind = "Tick"
    /\ events' = [events EXCEPT !.rx = recv(events.rx).rx]
    /\ UNCHANGED <<tabs, index, outcome, running, deleted, file, form>>

NextEvents == KeyboardSends \/ TickSends \/ ReceivesInput \/ ReceivesTick

SpecEvents == InitEvents /\ [][NextEvents]_vars

\* the loop takes the next event whenever the channel holds one: recv returns as
\* soon as an event is queued
SpecEventsFair == SpecEvents /\ WF_vars(ReceivesInput \/ ReceivesTick)

\* The quit key under the loop of main.rs: 'q' is sent in scrolling mode and, as
\* long as the form has room, in writing mode
KeyQ(env) == (Tab.is_writing => CanType) /\ Handle(Char("q"), env)

NextQuit ==
    \/ KeyRight(MainLoop)
    \/ KeyLeft(MainLoop)
    \/ KeyNew(MainLoop)
    \/ KeyQ(MainLoop)
    \/ KeyNextBox(MainLoop)
    \/ KeyEsc(MainLoop)

SpecQuit == Init /\ [][NextQuit]_vars

\* Entry files: an entry made from a filled form is written with to_file and read
\* back with from_file

\* text typed into a one-line box, a markdown box and a list box (tags, people)
LineTexts == {<<>>, <<"a">>, <<"a", ":", " ", "b">>}
BodyTexts == {<<>>, <<"a", "\n", "-", "-", "-", "\n", "b">>}
ListTexts == {<<>>, <<"a">>, <<"a", ",", "b">>}
\* ids and times of the entries written
FileIds == {1, IdLimit}
FileTimes == 0..TicksPerSecond

\* the boxes of the form of entry_type after line, body, people and tags were
\* typed into them
Filled(entry_type, line, body, people, tags) ==
    LET texts == CASE entry_type = "Task" -> <<line, body, tags>>
                   [] entry_type = "Journal" -> <<line, tags>>
                   [] entry_type = "Research" -> <<line, body, tags>>
                   [] entry_type = "Event" -> <<line, body, people, tags>>
        boxes == get_input_boxes(entry_type).boxes
    IN [i \in 1..Len(boxes) |-> [boxes[i] EXCEPT !.content = texts[i]]]

\* the entries a form makes, and those Tasks toggled
FormEntries ==
    {from_input_boxes(id, EntryTypes[t], Filled(EntryTypes[t], line, body, people, tags), now) :
        id \in FileIds, t \in 1..NumTabs, line \in LineTexts, body \in BodyTexts,
        people \in ListTexts, tags \in ListTexts, now \in FileTimes}

FileEntries ==
    FormEntries \cup {toggle(e) : e \in {f \in FormEntries : f.entry_type = "Task"}}

\* the application, started on an empty folder, gets no key
AppAside ==
    /\ tabs = GooseberryTabs_from_folder(Folder(0))
    /\ index = 0
    /\ outcome = [key |-> KeyClass(NoKey), res |-> Ok(FALSE), op |-> "from_folder"]
    /\ running = "waiting"
    /\ deleted = [i \in 0..(NumTabs - 1) |-> {}]
    /\ events = NoEvents

InitFile ==
    /\ AppAside
    /\ form = NoForm
    /\ \E e \in FileEntries : file = [pc |-> "entry", entry |-> e]

\* save_entry: the entry is written to its file
ToFile ==
    /\ file.pc = "entry"
    /\ file' = [pc |-> "written", entry |-> file.entry, content |-> to_file(file.entry)]
    /\ UNCHANGED <<tabs, index, outcome, running, deleted, form, events>>

\* from_folder: the file is read
FromFile ==
    /\ file.pc = "written"
    /\ file' = [pc |-> "read", entry |-> file.entry, content |-> file.content,
                read |-> from_file(file.content)]
    /\ UNCHANGED <<tabs, index, outcome, running, deleted, form, events>>

NextFile == ToFile \/ FromFile

SpecFile == InitFile /\ [][NextFile]_vars

\* Entry files as they are found: the file of an entry is read after one of its
\* header lines, its opening mark or its closing mark was taken out, with a Type
\* that is none of the four, or with an ID line that is the key alone

\* the entries whose files are read
DecodeEntries ==
    {from_input_boxes(id, EntryTypes[t],
                      Filled(EntryTypes[t], <<"a">>, <<"b">>, <<"a">>, tags), 0) :
        id \in FileIds, t \in 1..NumTabs, tags \in {<<>>, <<"a">>}}

\* lines without its k-th line
DropLine(lines, k) == SubSeq(lines, 1, k - 1) \o SubSeq(lines, k + 1, Len(lines))

UnknownTypeLine == KeyType_ \o ColonSpace \o <<"N", "o", "t", "e">>

\* the texts made of the file of entry e
DecodeTexts(e) ==
    LET lines == Split(to_file(e), "\n")
        close == ClosingMark(lines, 2)
    IN {JoinLines(lines), JoinLines(Tail(lines)),
        JoinLines([lines EXCEPT ![2] = UnknownTypeLine]),
        JoinLines(DropLine(lines, close)),
        JoinLines([lines EXCEPT ![3] = KeyID])}
           \cup {JoinLines(DropLine(lines, k)) : k \in 2..(close - 1)}

InitDecode ==
    /\ AppAside
    /\ form = NoForm
    /\ \E e \in DecodeEntries : \E text \in DecodeTexts(e) :
           file = [pc |-> "text", content |-> text]

\* from_file on the text
Decode ==
    /\ file.pc = "text"
    /\ file' = [pc |-> "decoded", content |-> file.content, read |-> from_file(file.content)]
    /\ UNCHANGED <<tabs, index, outcome, running, deleted, form, events>>

NextDecode == Decode

SpecDecode == InitDecode /\ [][NextDecode]_vars

\* A form on its own: InputBoxes::keypress on the boxes of every entry type, with
\* any content and any box focused

MaxBoxLen == 1
MaxScroll == 1
BoxTexts == {<<>>, <<"a">>}
FormChars == {"a", "\n"}

\* lines the boxes of a form are scrolled down by, together
RECURSIVE ScrollSum(_)
ScrollSum(boxes) ==
    IF boxes = <<>> THEN 0 ELSE boxes[1].scroll + ScrollSum(Tail(boxes))

\* ib after k calls of increment_box
RECURSIVE Advanced(_, _)
Advanced(ib, k) == IF k = 0 THEN ib ELSE Advanced(increment_box(ib), k - 1)

\* the forms in writing mode: some text in every box, any box focused
WritingForms ==
    UNION {LET ib == get_input_boxes(EntryTypes[t])
               n == Len(ib.boxes)
           IN {Advanced([ib EXCEPT !.boxes = [i \in 1..n |->
                                      [ib.boxes[i] EXCEPT !.content = texts[i]]]], k) :
                  texts \in [1..n -> BoxTexts], k \in 0..(n - 1)} :
           t \in 1..NumTabs}

InitForm ==
    /\ AppAside
    /\ file = NoFile
    /\ \E ib \in WritingForms :
           form = [pc |-> "writing", ib |-> ib, new_entry |-> None, stop_writing |-> FALSE,
                   newline |-> FALSE, began |-> None, run |-> 0]

\* the run of next-box commands after key was handled on the form ib: Ctrl-n goes
\* on with the run or, after a whole round or another key, begins one
Run(key, ib) ==
    IF key = Ctrl("n")
    THEN IF form.run = 0 \/ form.run = Len(ib.boxes)
         THEN [began |-> Some(ib), run |-> 1]
         ELSE [began |-> form.began, run |-> form.run + 1]
    ELSE [began |-> None, run |-> 0]

\* the form after InputBoxes::keypress returned r for key
FormReturned(key, r) ==
    /\ form' = [pc |-> IF r.stop_writing THEN "stopped" ELSE "writing",
                ib |-> r.ib, new_entry |-> r.new_entry, stop_writing |-> r.stop_writing,
                newline |-> (key = Char("\n")),
                began |-> Run(key, form.ib).began, run |-> Run(key, form.ib).run]
    /\ UNCHANGED <<tabs, index, outcome, running, deleted, file, events>>

\* GooseberryTab::keypress, writing mode: the key goes to InputBoxes::keypress
FormKey(key) == FormReturned(key, InputBoxes_keypress(form.ib, key))

\* the keys a form in writing mode gets
FormWriting == form.pc = "writing"
FormSave == FormWriting /\ FormKey(Ctrl("s"))
FormNext == FormWriting /\ FormKey(Ctrl("n"))
FormPrevious == FormWriting /\ FormKey(Ctrl("b"))
FormChar ==
    /\ FormWriting
    /\ Len(Focused(form.ib).content) < MaxBoxLen
    /\ \E c \in FormChars : FormKey(Char(c))
\* Enter in a box that is not a markdown box, whatever it holds
FormNewline == FormWriting /\ ~Focused(form.ib).markdown /\ FormKey(Char("\n"))
FormBackspace == FormWriting /\ FormKey(Backspace)
FormUp == FormWriting /\ FormKey(Up)
FormDown ==
    /\ FormWriting
    /\ ScrollSum(form.ib.boxes) < MaxScroll
    /\ FormKey(Down)
FormEsc == FormWriting /\ FormKey(Esc)
FormOther == FormWriting /\ \E key \in {Left, Right, Ctrl("x")} : FormKey(key)

\* GooseberryTab::keypress, 'n' in scrolling mode: the form is written again
FormBegin ==
    /\ form.pc = "stopped"
    /\ form' = [pc |-> "writing", ib |-> start_writing(form.ib), new_entry |-> None,
                stop_writing |-> FALSE, newline |-> FALSE, began |-> None, run |-> 0]
    /\ UNCHANGED <<tabs, index, outcome, running, deleted, file, events>>

NextForm ==
    \/ FormSave
    \/ FormNext
    \/ FormPrevious
    \/ FormChar
    \/ FormNewline
    \/ FormBackspace
    \/ FormUp
    \/ FormDown
    \/ FormEsc
    \/ FormOther
    \/ FormBegin

SpecForm == InitForm /\ [][NextForm]_vars

\* Start: the records of a folder are loaded

\* texts of records: two that decode, one without a header, one with an ID that
\* is no number, one whose header is not closed; among the records named Journal,
\* one whose header says Type: Task
GoodText(entry_type, id) == to_file(Record(entry_type, id))
NoHeaderText == <<"a">>
BadIdText ==
    HEADER_MARK \o <<"\n">> \o HeaderLine(KeyType_, TypeName("Task"))
        \o HeaderLine(KeyID, <<"x">>) \o HEADER_MARK \o <<"\n">>
UnclosedText == HEADER_MARK \o <<"\n">> \o HeaderLine(KeyID, <<"1">>)

MaxFiles == 2
RecordTexts(entry_type) ==
    CASE entry_type = "Task" ->
           {GoodText(entry_type, 1), GoodText(entry_type, 2), NoHeaderText, BadIdText}
      [] entry_type = "Journal" ->
           {GoodText(entry_type, 1), NoHeaderText, GoodText("Task", 1)}
      [] entry_type = "Research" -> {GoodText(entry_type, 1), UnclosedText}
      [] entry_type = "Event" -> {GoodText(entry_type, 1), BadIdText}

\* the records of one entry type: up to MaxFiles Tasks, and up to one of every
\* other type
RecordFiles(entry_type) ==
    UNION {[1..n -> RecordTexts(entry_type)] :
              n \in 0..(IF entry_type = "Task" THEN MaxFiles ELSE 1)}

FolderContents ==
    {[Task |-> task, Journal |-> journal, Research |-> research, Event |-> event] :
        task \in RecordFiles("Task"), journal \in RecordFiles("Journal"),
        research \in RecordFiles("Research"), event \in RecordFiles("Event")}

\* before GooseberryTabs::from_folder: there is no tab set
InitLoad ==
    /\ \E folder \in FolderContents : file = [pc |-> "folder", folder |-> folder]
    /\ tabs = <<>>
    /\ index = 0
    /\ outcome = [key |-> KeyClass(NoKey), res |-> Ok(FALSE), op |-> "start"]
    /\ running = "starting"
    /\ deleted = [i \in 0..(NumTabs - 1) |-> {}]
    /\ form = NoForm
    /\ events = NoEvents

\* GooseberryTabs::from_folder(&folder)?: the tab set, or the error that ends the
\* program
Load ==
    /\ file.pc = "folder"
    /\ LET loaded == GooseberryTabs_from_contents(file.folder)
       IN /\ tabs' = IF loaded.ok THEN loaded.val ELSE <<>>
          /\ outcome' = [key |-> KeyClass(NoKey),
                         res |-> IF loaded.ok THEN Ok(FALSE) ELSE loaded,
                         op |-> "from_folder"]
          /\ running' = IF loaded.ok THEN "waiting" ELSE "error"
    /\ file' = [file EXCEPT !.pc = "loaded"]
    /\ UNCHANGED <<index, deleted, form, events>>

NextLoad == Load \/ KeyRight(MainLoop)

SpecLoad == InitLoad /\ [][NextLoad]_vars

----------------------------------------------------------------------------
(* Properties *)

TabIndexes == 0..(NumTabs - 1)

\* the catalog of a tab
Catalog(tab) ==
    [entries |-> tab.entries, visible_ids |-> tab.visible_ids, next_id |-> tab.next_id]

\* the picker of a tab is idle
Idle(tab) == ~tab.picking_entry /\ tab.picking_char = None /\ tab.selected_entry = 0

\* the picker of the active tab is armed and the tab is in scrolling mode
Armed == Tab.picking_entry /\ ~Tab.is_writing

\* the step dispatched the armed command: Enter in scrolling mode with a command
\* character set
Dispatched == outcome'.op \in {"toggle_task_entry", "start_editing", "delete_entry"}

\* the fields of a note the form edits
EditableFields(note) ==
    CASE note.entry_type = "Task" -> <<note.task, note.description, note.tags>>
      [] note.entry_type = "Journal" -> <<note.description, note.tags>>
      [] note.entry_type = "Research" -> <<note.title, note.notes, note.tags>>
      [] note.entry_type = "Event" -> <<note.title, note.notes, note.people, note.tags>>

\* the text of the boxes of a form, the list boxes (tags, people) read as
\* comma-separated lists
FormFields(entry_type, boxes) ==
    CASE entry_type = "Task" ->
           <<boxes[1].content, boxes[2].content, SplitTrim(boxes[3].content)>>
      [] entry_type = "Journal" ->
           <<boxes[1].content, SplitTrim(boxes[2].content)>>
      [] entry_type = "Research" ->
           <<boxes[1].content, boxes[2].content, SplitTrim(boxes[3].content)>>
      [] entry_type = "Event" ->
           <<boxes[1].content, boxes[2].content, SplitTrim(boxes[3].content),
             SplitTrim(boxes[4].content)>>

\* an edit is started on the note the catalog holds under the picked id
EditStartsOnCatalogNote ==
    (outcome'.op = "start_editing" /\ outcome'.res.ok) =>
        tabs'[index].editing_entry = Some(Tab.entries[Tab.selected_entry])

\* a saved edit puts, under the id of the note the edit was started on, a note
\* with that note's id, datetime and done flag and with the text of the form
EditSavesMerged ==
    (outcome'.op = "merge_entry" /\ outcome'.res.ok) =>
        LET original == Tab.editing_entry[1]
            saved == tabs'[index].entries[original.id]
        IN /\ original.id \in DOMAIN tabs'[index].entries
           /\ saved.entry_type = original.entry_type
           /\ saved.id = original.id
           /\ saved.datetime = original.datetime
           /\ (original.entry_type = "Task" => saved.done = original.done)
           /\ EditableFields(saved) = FormFields(Tab.entry_type, Tab.input_boxes.boxes)

\* C1: merge-on-edit. Starting an edit of a catalog note and saving the form
\* yields a catalog note with the id, the timestamp and (for a Task) the done
\* flag of the original, and with the editable fields (summary/title, body,
\* people, tags) taken from the saved form text.
C1_MergeOnEdit == [][EditStartsOnCatalogNote /\ EditSavesMerged]_vars

\* C1 witness: Task 2 (done, summary "a", loaded with datetime 0) was edited, its
\* summary erased and the edit saved.
C1_Witness ==
    /\ outcome.op = "merge_entry" /\ outcome.res.ok
    /\ Tab.entry_type = "Task"
    /\ 2 \in DOMAIN Tab.entries
    /\ Tab.entries[2].task = <<>>
    /\ Tab.entries[2].done
    /\ Tab.entries[2].datetime = 0

\* a sequence without a repeated element
NoDuplicates(v) == \A i, j \in 1..Len(v) : v[i] = v[j] => i = j

\* C2: catalog consistency. In every reachable state, visible_ids of every tab
\* holds no id twice and holds exactly the keys of entries.
C2_CatalogConsistent ==
    \A i \in TabIndexes :
        /\ NoDuplicates(tabs[i].visible_ids)
        /\ {tabs[i].visible_ids[k] : k \in 1..Len(tabs[i].visible_ids)}
               = DOMAIN tabs[i].entries

\* C3: id monotonicity. In every reachable state of a tab, next_id is strictly
\* greater than every id in the catalog.
C3_NextIdAboveAll ==
    \A i \in TabIndexes : \A id \in DOMAIN tabs[i].entries : id < tabs[i].next_id

\* C4: within a session, an id that has been deleted from a catalog is never
\* the id of a note of that catalog again.
C4_DeletedNeverBack ==
    \A i \in TabIndexes : deleted[i] \cap DOMAIN tabs[i].entries = {}

\* C5: after a confirm keystroke processed while the picker is armed, the picker
\* is idle, whether the dispatched command succeeded or failed.
C5_ConfirmResetsPicker == [][(Armed /\ Dispatched) => Idle(tabs'[index])]_vars

\* the digit key c was handled while the picker was armed
ArmedDigit(c) == Armed /\ Handle(Char(c), Caller)

\* C6: digit accumulation. While armed, every digit keystroke d sets
\* selected_entry to 10 * selected_entry + d.
C6_DigitAccumulates ==
    [][\A c \in AllDigits :
          ArmedDigit(c) =>
              tabs'[index].selected_entry = 10 * Tab.selected_entry + DigitValue(c)]_vars

\* C6, amended: while armed, a digit keystroke d sets selected_entry to
\* 10 * selected_entry + d when that number is at most the largest id (u64::MAX);
\* when it is larger the keystroke returns a parse error and selected_entry
\* stays as it was.
C6_DigitAccumulatesInRange ==
    [][\A c \in AllDigits :
          ArmedDigit(c) =>
              IF 10 * Tab.selected_entry + DigitValue(c) <= IdLimit
              THEN /\ outcome'.res.ok
                   /\ tabs'[index].selected_entry
                          = 10 * Tab.selected_entry + DigitValue(c)
              ELSE /\ outcome'.res = ParseIntError
                   /\ tabs'[index].selected_entry = Tab.selected_entry]_vars

\* C6 witness: "1" then "0" were typed into the armed picker and read as 10.
C6_Witness ==
    /\ Tab.picking_entry
    /\ Tab.selected_entry = 10
    /\ outcome.res.ok /\ outcome.op = "keypress"

\* C7: a write failure during a new-note save, an edit save, a toggle-done or a
\* delete leaves entries, visible_ids and next_id of the tab as they were before
\* the keystroke.
C7_WriteFailureLeavesCatalog ==
    [][outcome'.res = IoError => Catalog(tabs'[index]) = Catalog(Tab)]_vars

\* the armed command looks its id up in the catalog: edit and delete on every
\* tab, toggle-done on the Task tab
LooksUp ==
    \/ Tab.picking_char \in {Some("e"), Some("d")}
    \/ Tab.picking_char = Some("t") /\ Tab.entry_type = "Task"

\* C8: confirming an edit, a delete or (Task tab) a toggle-done against an id
\* that is not in the catalog returns MissingEntryID with the type of the tab and
\* that id, and leaves the catalog, the mode (still scrolling), the form and
\* editing_entry unchanged.
C8_MissingIdNotFound ==
    [][(Armed /\ Dispatched /\ LooksUp /\ Tab.selected_entry \notin DOMAIN Tab.entries) =>
          /\ ~outcome'.res.ok
          /\ outcome'.res.err = [kind |-> "MissingEntryID",
                                 entry_type |-> Tab.entry_type,
                                 entry_id |-> Tab.selected_entry]
          /\ Catalog(tabs'[index]) = Catalog(Tab)
          /\ ~tabs'[index].is_writing
          /\ tabs'[index].input_boxes = Tab.input_boxes
          /\ tabs'[index].editing_entry = Tab.editing_entry]_vars

\* C8 witness: on a Task tab that holds a note, toggle-done was confirmed against
\* an id the catalog does not hold.
C8_Witness ==
    /\ outcome.op = "toggle_task_entry"
    /\ ~outcome.res.ok
    /\ outcome.res.err.kind = "MissingEntryID"
    /\ Tab.entry_type = "Task"
    /\ Tab.entries # <<>>
    /\ Tab.selected_entry \notin DOMAIN Tab.entries

\* C9: no error returned while handling a keystroke ends the loop: after the
\* error the loop is still waiting for the next event.
C9_ErrorsKeepLoop == ~outcome.res.ok => running = "waiting"

\* C10: while the active tab is writing, no keystroke changes index; index
\* changes only on Right (to the next tab) and Left (to the previous tab) received
\* while the active tab is not writing.
C10_WritingCapturesSwitch ==
    [][/\ Tab.is_writing => index' = index
       /\ index' # index =>
              /\ ~Tab.is_writing
              /\ \/ outcome'.key = "Right" /\ index' = (index + 1) % NumTabs
                 \/ outcome'.key = "Left" /\ index' = (index + NumTabs - 1) % NumTabs]_vars

\* C10 witness: Right was pressed while the third tab was writing.
C10_Witness == Tab.is_writing /\ outcome.key = "Right" /\ index = 2

\* C11: the tab set signals termination (returns Ok(true), which ends the loop)
\* only for 'q' received while the active tab is not writing; while it is
\* writing, 'q' is appended to the focused box as text and Ok(false) is returned.
C11_QuitOnlyWhenNotWriting ==
    [][/\ (outcome'.res = Ok(TRUE) \/ running' = "quit") =>
              ~Tab.is_writing /\ Handle(Char("q"), MainLoop)
       /\ (Tab.is_writing /\ Handle(Char("q"), MainLoop)) =>
              /\ outcome'.res = Ok(FALSE)
              /\ running' = "waiting"
              /\ tabs'[index].is_writing
              /\ Focused(tabs'[index].input_boxes).content
                     = Append(Focused(Tab.input_boxes).content, "q")]_vars

\* C11 witness: 'q' was typed into the form of a writing tab and the loop goes on.
C11_Witness ==
    /\ Tab.is_writing
    /\ Focused(Tab.input_boxes).content = <<"q">>
    /\ outcome.res = Ok(FALSE)
    /\ running = "waiting"

\* an entry with the surrounding whitespace of its header values taken off
Trimmed(e) ==
    CASE e.entry_type = "Task" ->
           [e EXCEPT !.task = Trim(e.task),
                     !.tags = [i \in 1..Len(e.tags) |-> Trim(e.tags[i])]]
      [] e.entry_type = "Journal" ->
           [e EXCEPT !.tags = [i \in 1..Len(e.tags) |-> Trim(e.tags[i])]]
      [] e.entry_type = "Research" ->
           [e EXCEPT !.title = Trim(e.title),
                     !.tags = [i \in 1..Len(e.tags) |-> Trim(e.tags[i])]]
      [] e.entry_type = "Event" ->
           [e EXCEPT !.title = Trim(e.title),
                     !.people = [i \in 1..Len(e.people) |-> Trim(e.people[i])],
                     !.tags = [i \in 1..Len(e.tags) |-> Trim(e.tags[i])]]

\* C12: round trip. Reading the text written for an entry yields an entry equal
\* to it in id, datetime, tags, variant-specific header fields and body, up to the
\* surrounding whitespace of header values.
C12_RoundTrip ==
    file.pc = "read" => file.read.ok /\ file.read.val = Trimmed(file.entry)

\* the toggle-done command is confirmed on a Task tab for an id of its catalog
TogglesPresent ==
    /\ Armed
    /\ Tab.picking_char = Some("t")
    /\ Tab.entry_type = "Task"
    /\ Tab.selected_entry \in DOMAIN Tab.entries
    /\ Handle(Char("\n"), Caller)

\* the other notes of the tab set are those they were
OthersUnchanged(id) ==
    /\ DOMAIN tabs'[index].entries = DOMAIN Tab.entries
    /\ \A other \in DOMAIN Tab.entries \ {id} : tabs'[index].entries[other] = Tab.entries[other]
    /\ \A i \in TabIndexes \ {index} : tabs'[i].entries = tabs[i].entries

\* C13: toggle-done on a Task tab for an existing id flips the done flag of that
\* note, leaves its id, datetime, tags, summary and details unchanged, leaves every
\* other note unchanged, and the command applied once more gives the original
\* done value back.
C13_ToggleFlipsDone ==
    [][TogglesPresent =>
          LET id == Tab.selected_entry
              note == Tab.entries[id]
              note1 == tabs'[index].entries[id]
          IN /\ note1 = [note EXCEPT !.done = ~note.done]
             /\ note1.done # note.done
             /\ <<note1.id, note1.datetime, note1.tags, note1.task, note1.description>>
                    = <<note.id, note.datetime, note.tags, note.task, note.description>>
             /\ OthersUnchanged(id)
             /\ \A io \in BOOLEAN :
                    toggle_task_entry([tabs'[index] EXCEPT !.selected_entry = id], io)
                        .tab.entries[id] = note]_vars

\* toggle-done was confirmed twice on Task 1, which is not done again
C13_Witness ==
    /\ index = 0
    /\ outcome.op = "toggle_task_entry"
    /\ outcome.res.ok
    /\ tabs[0].entries = Folder(2)["Task"]

\* the delete command is confirmed for an id of the catalog
DeletesPresent ==
    /\ Armed
    /\ Tab.picking_char = Some("d")
    /\ Tab.selected_entry \in DOMAIN Tab.entries
    /\ Handle(Char("\n"), Reliable)

\* the ids of v other than x, in the order of v
Without(v, x) ==
    LET Other(y) == y # x
    IN SelectSeq(v, Other)

Contents(ib) == [i \in 1..Len(ib.boxes) |-> ib.boxes[i].content]

\* C15: focus wrap. In a form with N boxes, N consecutive next-box commands from
\* any focus position bring the focus back to the same box and change the
\* content of no box.
C15_FocusWrap ==
    (form.pc = "writing" /\ form.run = Len(form.ib.boxes)) =>
        /\ form.ib.index = form.began[1].index
        /\ Contents(form.ib) = Contents(form.began[1])

\* a form of four boxes with some text went round from its third box
C15_Witness ==
    /\ form.pc = "writing"
    /\ form.run = Len(form.ib.boxes)
    /\ Len(form.ib.boxes) = 4
    /\ form.ib.index = 2
    /\ Focused(form.ib).content = <<"a">>

\* the records of the folder in the order they are read, and those that do not
\* decode
ReadOrder(folder) ==
    folder["Task"] \o folder["Journal"] \o folder["Research"] \o folder["Event"]

Undecoded(folder) ==
    {i \in 1..Len(ReadOrder(folder)) : ~from_file(ReadOrder(folder)[i]).ok}

\* C16: loading is all-or-nothing. If any record of any entry type fails to decode,
\* the load fails with the error of the first such record, and no tab set and no
\* catalog of the records that did decode is made.
C16_LoadAllOrNothing ==
    (file.pc = "loaded" /\ Undecoded(file.folder) # {}) =>
        LET first == CHOOSE i \in Undecoded(file.folder) :
                         \A j \in Undecoded(file.folder) : i <= j
        IN /\ tabs = <<>>
           /\ running = "error"
           /\ ~outcome.res.ok
           /\ outcome.res = from_file(ReadOrder(file.folder)[first])

\* a folder whose two Task records decode and whose Journal record has no header
\* was loaded: the error is MissingHeader and there is no tab set
C16_Witness ==
    /\ file.pc = "loaded"
    /\ file.folder["Task"] = <<GoodText("Task", 1), GoodText("Task", 2)>>
    /\ file.folder["Journal"] = <<NoHeaderText>>
    /\ from_file(GoodText("Task", 2)) = Ok(Record("Task", 2))
    /\ outcome.res = MissingHeader
    /\ tabs = <<>>

\* no box of the form holds text; no box is written into
Cleared(ib) == \A i \in 1..Len(ib.boxes) : ib.boxes[i].content = <<>>
Stopped(ib) == \A i \in 1..Len(ib.boxes) : ~ib.boxes[i].is_writing

\* C17: the save control returns a snapshot equal to the contents of all boxes
\* immediately before the keystroke, leaves the content of every box empty and
\* puts the form in idle.
C17_SaveSnapshots ==
    [][FormSave =>
          /\ IsSome(form'.new_entry)
          /\ [i \in 1..Len(form'.new_entry[1]) |-> form'.new_entry[1][i].content]
                 = Contents(form.ib)
          /\ Cleared(form'.ib)
          /\ Stopped(form'.ib)
          /\ form'.stop_writing]_vars

\* a form with text in a box was saved: the text is in the snapshot and not in
\* the form
C17_Witness ==
    /\ form.pc = "stopped"
    /\ IsSome(form.new_entry)
    /\ \E i \in 1..Len(form.new_entry[1]) : form.new_entry[1][i].content = <<"a">>
    /\ Cleared(form.ib)
    /\ Stopped(form.ib)

\* C18: the cancel control clears the content of every box and returns the form
\* to idle without producing a snapshot.
C18_CancelClears ==
    [][FormEsc =>
          /\ Cleared(form'.ib)
          /\ Stopped(form'.ib)
          /\ form'.new_entry = None
          /\ form'.stop_writing]_vars

\* writing is started with 'n'; an edit is started on an id of the catalog
BeginsNew == ~Tab.is_writing /\ Handle(Char("n"), Reliable)
BeginsEdit ==
    /\ Armed
    /\ Tab.picking_char = Some("e")
    /\ Tab.selected_entry \in DOMAIN Tab.entries
    /\ Handle(Char("\n"), Reliable)

\* C19: begin. Starting to write with 'n' leaves every box empty with the focus
\* on box 0; starting through an edit command sets each box to the corresponding
\* value of the note being edited with the focus on box 0; in both cases the tab
\* is writing afterwards.
C19_Begin ==
    [][/\ BeginsNew =>
              /\ Cleared(tabs'[index].input_boxes)
              /\ tabs'[index].input_boxes.index = 0
              /\ tabs'[index].is_writing
       /\ BeginsEdit =>
              /\ FormFields(Tab.entry_type, tabs'[index].input_boxes.boxes)
                     = EditableFields(Tab.entries[Tab.selected_entry])
              /\ tabs'[index].input_boxes.index = 0
              /\ tabs'[index].is_writing]_vars

\* a key other than save and cancel was handled by the form
FormGoesOn ==
    \/ FormNext
    \/ FormPrevious
    \/ FormChar
    \/ FormNewline
    \/ FormBackspace
    \/ FormUp
    \/ FormDown
    \/ FormOther

\* C20: the result of every keystroke of the form has one of three shapes:
\* (snapshot, ended) for save, (no snapshot, ended) for cancel, (no snapshot, not
\* ended) for every other key; a snapshot is never returned without the ended
\* flag.
C20_ResultShapes ==
    [][/\ FormSave => IsSome(form'.new_entry) /\ form'.stop_writing
       /\ FormEsc => form'.new_entry = None /\ form'.stop_writing
       /\ FormGoesOn => form'.new_entry = None /\ ~form'.stop_writing
       /\ IsSome(form'.new_entry) => form'.stop_writing]_vars

\* a form with text was cancelled: no snapshot, ended
C20_Witness ==
    /\ form.pc = "stopped"
    /\ form.new_entry = None
    /\ form.stop_writing
    /\ ~Cleared(form.ib)

\* Enter is handled by a form in writing mode
TypesNewline == FormWriting /\ FormKey(Char("\n"))

\* C21: a newline typed while the focused box is not a markdown box moves the
\* focus to the next box, cyclically, and leaves the content of every box
\* unchanged; a newline typed in a markdown box is appended to that box and the
\* focus does not move.
C21_NewlineAdvancesOrAppends ==
    [][TypesNewline =>
          LET i == form.ib.index + 1
          IN IF ~form.ib.boxes[i].markdown
             THEN /\ form'.ib.index = (form.ib.index + 1) % Len(form.ib.boxes)
                  /\ Contents(form'.ib) = Contents(form.ib)
             ELSE /\ form'.ib.index = form.ib.index
                  /\ Contents(form'.ib)
                         = [Contents(form.ib) EXCEPT ![i] = Append(@, "\n")]]_vars

\* Enter in the last box of a form of four boxes, which holds text: the focus is on
\* the first box and the text is where it was
C21_Witness ==
    /\ form.pc = "writing"
    /\ form.newline
    /\ Len(form.ib.boxes) = 4
    /\ form.ib.index = 0
    /\ form.ib.boxes[4].content = <<"a">>

\* the save key is handled while an entry is being edited
SavesEdit == Tab.is_writing /\ IsSome(Tab.editing_entry) /\ Handle(Ctrl("s"), Caller)

\* editing_entry is set by the step
MarksEdit == tabs'[index].editing_entry # None /\ tabs'[index].editing_entry # Tab.editing_entry

\* C22: after the save keystroke of an edit session has been processed,
\* editing_entry is cleared; editing_entry is set only by a successful edit
\* dispatch and so only between that dispatch and the save that ends the edit.
C22_SaveClearsMarker ==
    [][/\ SavesEdit => tabs'[index].editing_entry = None
       /\ MarksEdit => (outcome'.op = "start_editing" /\ outcome'.res.ok)]_vars

\* the digit key c is handled while the picker of the active tab is idle
IdleDigit(c) == Idle(Tab) /\ Handle(Char(c), Caller)

\* C23: a digit keystroke received while the picker is idle has no effect on the
\* picker: selected_entry stays 0, picking_entry stays false and no command
\* character is set.
C23_IdleDigitIgnored ==
    [][\A c \in AllDigits : IdleDigit(c) => Idle(tabs'[index])]_vars

C23_Witness ==
    /\ Idle(Tab)
    /\ ~Tab.is_writing
    /\ index = 1
    /\ outcome.op = "keypress"
    /\ outcome.res.ok

\* toggle-done is confirmed on a tab that does not hold tasks
TogglesElsewhere ==
    /\ Armed
    /\ Tab.picking_char = Some("t")
    /\ Tab.entry_type # "Task"
    /\ Handle(Char("\n"), Caller)

\* C24: toggle-done confirmed on a non-Task tab is a no-op and not an error for
\* every accumulated id, present or absent: the notes, the record files and the
\* mode are unchanged and the keystroke returns Ok.
C24_ToggleElsewhereNoOp ==
    [][TogglesElsewhere =>
          /\ outcome'.res.ok
          /\ Catalog(tabs'[index]) = Catalog(Tab)
          /\ \A i \in TabIndexes :
                 /\ tabs'[i].entries = tabs[i].entries
                 /\ tabs'[i].folder = tabs[i].folder
                 /\ tabs'[i].is_writing = tabs[i].is_writing]_vars

\* toggle-done was confirmed on the Journal tab
C24_Witness ==
    /\ index = 1
    /\ tabs[1].entry_type = "Journal"
    /\ outcome.op = "toggle_task_entry"
    /\ outcome.res.ok
    /\ ~tabs[1].is_writing

\* the value the file of entry e carries on its header line of its own: the
\* summary of a Task, the title of a Research or Event entry
OwnLine(e) ==
    CASE e.entry_type = "Task" -> e.task
      [] e.entry_type \in {"Research", "Event"} -> e.title
      [] OTHER -> <<>>

\* C25: header lines are split into key and value at the first ": " only, so a
\* header value that itself contains ": " (a task summary, a title) is decoded in
\* full.
C25_ValueDecodedInFull ==
    (file.pc = "read" /\ file.entry.entry_type # "Journal") =>
        /\ file.read.ok
        /\ OwnLine(file.read.val) = Trim(OwnLine(file.entry))

\* the text has a header whose Tags line carries an empty value
EmptyTagsLine(content) ==
    LET hl == get_header_lines(content)
    IN hl.ok /\ KeyTags \in DOMAIN hl.val.header /\ hl.val.header[KeyTags] = <<>>

\* C26: an empty tag list survives the codec. An entry without tags is written
\* with a Tags line of empty value, and a Tags line of empty value is read as the
\* empty sequence of tags, not as a sequence holding one empty string.
C26_EmptyTagsSurvive ==
    /\ (file.pc = "read" /\ Join(file.entry.tags) = <<>>) => EmptyTagsLine(file.content)
    /\ (file.pc = "read" /\ EmptyTagsLine(file.content)) =>
           file.read.ok /\ file.read.val.tags = <<>>

\* the keys an entry of entry_type needs in its header
RequiredKeys(entry_type) ==
    {KeyType_, KeyID, KeyDateTime, KeyTags}
        \cup CASE entry_type = "Task" -> {KeyTask, KeyDone}
               [] entry_type = "Journal" -> {}
               [] entry_type = "Research" -> {KeyTitle}
               [] entry_type = "Event" -> {KeyTitle, KeyPeople}

\* the text opens with the header mark
Marked(content) == Split(content, "\n")[1] = HEADER_MARK

\* the header of a text that has one
HeaderOf(content) == get_header_lines(content).val.header

\* the header names one of the four entry types
TypeKnown(header) ==
    KeyType_ \in DOMAIN header /\ GooseberryEntryType_from_str(header[KeyType_]).ok

\* the header is there and lacks a key its entry type needs
LacksKey(content) ==
    /\ get_header_lines(content).ok
    /\ \/ KeyType_ \notin DOMAIN HeaderOf(content)
       \/ /\ TypeKnown(HeaderOf(content))
          /\ \E k \in RequiredKeys(GooseberryEntryType_from_str(HeaderOf(content)[KeyType_]).val) :
                 k \notin DOMAIN HeaderOf(content)

\* C27: reading a text whose first line is not the header mark fails with
\* MissingHeader, an error other than the one returned for a header that is there
\* and lacks a needed key.
C27_MissingHeaderDistinct ==
    /\ (file.pc = "decoded" /\ ~Marked(file.content)) => file.read = MissingHeader
    /\ (file.pc = "decoded" /\ LacksKey(file.content)) =>
           /\ ~file.read.ok
           /\ file.read.err.kind = "MissingHeaderElement"
           /\ file.read # MissingHeader

\* a text without opening mark was read
C27_Witness ==
    /\ file.pc = "decoded"
    /\ ~Marked(file.content)
    /\ file.read = MissingHeader

\* C28: reading a text with a well-delimited header fails when a key needed for
\* its entry type is not there (Type, ID, DateTime, Tags for all; Task and Done for
\* Task; Title for Research and Event; People for Event) or when Type is none of
\* the four names; no entry is made with a field filled in by default.
C28_RequiredOrError ==
    (file.pc = "decoded" /\ get_header_lines(file.content).ok) =>
        /\ LacksKey(file.content) => ~file.read.ok
        /\ ~TypeKnown(HeaderOf(file.content)) => ~file.read.ok
        /\ file.read.ok =>
               RequiredKeys(file.read.val.entry_type) \subseteq DOMAIN HeaderOf(file.content)

\* the file of an Event entry was read without its People line
C28_Witness ==
    /\ file.pc = "decoded"
    /\ get_header_lines(file.content).ok
    /\ TypeKnown(HeaderOf(file.content))
    /\ HeaderOf(file.content)[KeyType_] = TypeName("Event")
    /\ KeyPeople \notin DOMAIN HeaderOf(file.content)
    /\ file.read = MissingHeaderElement("People")

\* C30: tab isolation. A keystroke routed to the active tab changes no state of
\* any other tab: their notes, forms, pickers, mode flags, fold and scroll are
\* those they were.
C30_TabIsolation ==
    [][\A i \in TabIndexes \ {index} : tabs'[i] = tabs[i]]_vars

\* the note of the second tab was deleted while a delete is armed on the first tab
\* and the form of the third was opened and left
C30_Witness ==
    /\ index = 1
    /\ outcome.op = "delete_entry"
    /\ outcome.res.ok
    /\ tabs[1].entries = <<>>
    /\ tabs[0].picking_entry
    /\ tabs[0].selected_entry = 1
    /\ tabs[0].entries # <<>>
    /\ tabs[2].input_boxes.boxes[1].is_writing

\* the tab set and the active tab after the keys were handled one after the other,
\* from the start
RECURSIVE Replay(_)
Replay(keys) ==
    IF keys = <<>>
    THEN [tabs |-> GooseberryTabs_from_folder(Folder(1)), index |-> 0]
    ELSE LET before == Replay(SubSeq(keys, 1, Len(keys) - 1))
             r == GooseberryTabs_keypress(before.tabs, before.index, keys[Len(keys)], 0, TRUE)
         IN [tabs |-> r.tabs, index |-> r.index]

\* the keys of the events in the channel, in their order
RECURSIVE Queued(_)
Queued(rx) ==
    IF rx = <<>> THEN <<>>
    ELSE IF Head(rx).kind = "Input" THEN <<Head(rx).key>> \o Queued(Tail(rx))
    ELSE Queued(Tail(rx))

\* the keys handled, followed by those waiting, are the keys sent, and the tab
\* set is the one that handling them in this order gives
InOrder ==
    /\ events.handled \o Queued(events.rx) = events.sent
    /\ tabs = Replay(events.handled).tabs
    /\ index = Replay(events.handled).index

\* C29: key events are handled by the loop one at a time, each exactly once and in
\* the order the keyboard thread sent them, for every interleaving of the ticks
\* of the tick thread on the channel; a tick changes no state of the tab set.
C29_KeysInOrder ==
    /\ []InOrder
    /\ [][/\ Len(events'.handled) <= Len(events.handled) + 1
          /\ ReceivesTick => UNCHANGED <<tabs, index, running>>]_vars
    /\ \A n \in 1..MaxKeys :
           (Len(events.sent) >= n) ~> (Len(events.handled) >= n \/ running # "waiting")

\* three keys were handled with both ticks taken before the last of them
C29_Witness ==
    /\ events.handled = <<Char("n"), Esc, Right>>
    /\ events.ticks = MaxTicks
    /\ events.rx = <<>>
    /\ index = 1

\* next applied n times to idx
RECURSIVE NextTimes(_, _)
NextTimes(idx, n) == IF n = 0 THEN idx ELSE NextTimes(next(idx), n - 1)

\* C31: tab navigation is cyclic and stays in range. index is always in
\* [0, number of tabs), next followed by previous and previous followed by next
\* give the index back, and as many next as there are tabs lead back to the tab
\* they started on.
C31_CyclicNavigation ==
    /\ [](/\ index \in 0..(NumTabs - 1)
          /\ previous(next(index)) = index
          /\ next(previous(index)) = index
          /\ NextTimes(index, NumTabs) = index)
    /\ [][/\ outcome'.op = "next" => index' = next(index)
          /\ outcome'.op = "previous" => index' = previous(index)]_vars

\* Left on the first tab has led to the last one
C31_Witness ==
    /\ outcome.op = "previous"
    /\ outcome.key = "Left"
    /\ index = NumTabs - 1

\* the start-authoring key is handled in scrolling mode
StartsNew == ~Tab.is_writing /\ Handle(Char("n"), Caller)

\* what the save key does to tab at time now on storage that takes the write
SavedFrom(tab, now) == GooseberryTab_keypress(tab, Ctrl("s"), now, TRUE)

\* the notes of tab with one more, stored under the next_id of tab
AddedTo(tab, saved) ==
    /\ tab.next_id \notin DOMAIN tab.entries
    /\ DOMAIN saved.entries = DOMAIN tab.entries \cup {tab.next_id}
    /\ \A id \in DOMAIN tab.entries : saved.entries[id] = tab.entries[id]

\* C32: a save that ends an authoring session started with 'n' (not through an
\* edit command) stores the note under next_id, an id not present before, and
\* replaces no note; also when an earlier edit session of the tab was cancelled
\* or its save failed.
C32_NewNoteNeverReplaces ==
    [][StartsNew =>
          \A now \in Times :
              /\ SavedFrom(tabs'[index], now).res.ok
              /\ SavedFrom(tabs'[index], now).op = "add_entry"
              /\ AddedTo(Tab, SavedFrom(tabs'[index], now).tab)]_vars

\* the step saved the edit of a Task of the catalog
SavedTaskEdit ==
    /\ Tab.entry_type = "Task"
    /\ Tab.is_writing
    /\ IsSome(Tab.editing_entry)
    /\ Tab.editing_entry[1].id \in DOMAIN Tab.entries
    /\ outcome'.op = "merge_entry"
    /\ outcome'.res.ok

\* C33: a toggle-done committed on a Task while an edit of that Task is paused
\* is not lost: when the edit is resumed and saved, the done flag of the saved
\* Task is the one the catalog held for that id right before the save.
C33_ToggleSurvivesEdit ==
    [][SavedTaskEdit =>
          tabs'[index].entries[Tab.editing_entry[1].id].done
              = Tab.entries[Tab.editing_entry[1].id].done]_vars

\* C34: catalog homogeneity. In every reachable state every note held in the
\* catalog of a tab has the variant of that tab's entry type; a record named for
\* one entry type whose header Type names another is never held in the catalog
\* of the first.
C34_CatalogHomogeneous ==
    \A i \in DOMAIN tabs : \A id \in DOMAIN tabs[i].entries :
        tabs[i].entries[id].entry_type = tabs[i].entry_type

\* C35: decoding is total. For every text it ends with an entry or a parse error
\* and never aborts; a text with an opening mark and no closing mark, and a
\* header line without ": ", give an error.
C35_DecodingTotal ==
    file.pc = "decoded" => (file.read.ok \/ file.read # Panic)

\* what GooseberryEntry::from_file reads from the record written for id of tab
Reread(tab, id) == from_file(to_file(tab.folder[id]))

\* C36: store and memory agree. When no storage operation fails, after any
\* sequence of new-note saves, edit saves, toggles and deletes, loading the
\* entry type again from its records gives exactly the catalog in memory (same
\* ids, same field values): a deleted note is not back, a saved one not missing.
C36_StoreMatchesMemory ==
    \A i \in DOMAIN tabs :
        /\ DOMAIN tabs[i].folder = DOMAIN tabs[i].entries
        /\ \A id \in DOMAIN tabs[i].folder :
               /\ Reread(tabs[i], id).ok
               /\ Reread(tabs[i], id).val = tabs[i].entries[id]

\* the focus of the form is on one of its boxes, and that box alone is marked as
\* the one written to
OneBoxWritten(ib) ==
    /\ ib.index \in 0..(Len(ib.boxes) - 1)
    /\ \A k \in 1..Len(ib.boxes) : ib.boxes[k].is_writing <=> (k = ib.index + 1)

\* C37: in every reachable state in which a tab is writing, the focus index of its
\* form is within [0, number of boxes) and exactly one box, the one at the focus
\* index, is marked as written to; also after a save keystroke whose write failed.
C37_OneBoxWritten ==
    \A i \in DOMAIN tabs : tabs[i].is_writing => OneBoxWritten(tabs[i].input_boxes)

\* C38: in every reachable state a tab that is writing has its picker idle (not
\* armed, no command character), so that a command armed before an authoring
\* session cannot be dispatched by Enter after that session has ended.
C38_WritingMeansIdle ==
    \A i \in DOMAIN tabs : tabs[i].is_writing => Idle(tabs[i])

\* C39: making the text of the list of a tab succeeds in every reachable catalog
\* state, also with no visible note and with visible_ids naming an id that is not
\* in entries; it never aborts the program.
C39_RenderSucceeds ==
    running = "waiting" => render(Tab).ok

====
